---- MODULE Spec2Model ----
(***************************************************************************)
(* Model of the Git Repository Research assistant:                         *)
(*   MCPIntegration (mcp_integration.py) - setup/probe, tool catalog,      *)
(*     call_tool, the live-call path, the comprehensive repository         *)
(*     analysis and the fallback guidance;                                 *)
(*   AgentManager (agent_manager.py) - initialize_agent, model test,       *)
(*     query parsing, process_query and prompt assembly, cleanup.          *)
(*                                                                         *)
(* Python strings are modelled by structure: a text is a record naming the *)
(* template that produced it and the values interpolated into it, and      *)
(* Contains(text, marker) is the substring test ("marker in text") the     *)
(* code performs.  Everything outside the program (the uvx runner, the     *)
(* server process, the server's answers, the inference service) is a       *)
(* nondeterministic choice made in the action that consults it.            *)
(*                                                                         *)
(* One operation runs at a time (asyncio.run per operation, no tasks are   *)
(* spawned); pc is the position inside the running operation.              *)
(***************************************************************************)
EXTENDS Integers, Sequences, FiniteSets, TLC

VARIABLES
    driver,            \* who drives the objects: "agent" (app.py) or "integration" (test_mcp_connection.py)
    github_token,      \* AgentManager.github_token
    bedrock_client,    \* AgentManager.bedrock_client is not None
    mcp_integration,   \* an MCPIntegration object exists
    initialized,       \* AgentManager._initialized
    BEDROCK_MODEL_ID,  \* Config.BEDROCK_MODEL_ID (process-wide)
    mcp_token,         \* MCPIntegration.github_token
    tools_cache,       \* MCPIntegration._tools_cache (<<>> stands for None)
    connected,         \* MCPIntegration._connected
    mcp_available,     \* MCPIntegration._mcp_available
    pc,                \* position of the running operation, "idle" between operations
    ret,               \* outcome of the operation that just finished (visible at pc = "done")
    probe,             \* what the last setup_client did to the outside world
    ct,                \* frame of the running call_tool
    ca,                \* frame of the running _comprehensive_repository_analysis
    pq                 \* frame of the running process_query

vars == << driver, github_token, bedrock_client, mcp_integration, initialized,
           BEDROCK_MODEL_ID, mcp_token, tools_cache, connected, mcp_available,
           pc, ret, probe, ct, ca, pq >>

agentVars == << github_token, bedrock_client, mcp_integration, initialized, BEDROCK_MODEL_ID >>
mcpVars   == << mcp_token, tools_cache, connected, mcp_available >>

----------------------------------------------------------------------------
(* Input domains                                                           *)

NoToken  == ""
SomeToken == "ghp_token"
Tokens   == {NoToken, SomeToken}

\* A repository URL "https://github.com/a/<stem>[.git]"; NoUrl is the empty string.
NoUrl    == [stem |-> "", dotgit |-> FALSE]
PlainUrl == [stem |-> "b", dotgit |-> FALSE]
\* A URL whose last segment happens to spell the phrase process_query searches for.
PhraseUrl == [stem |-> "Real Repository Data from MCP Server", dotgit |-> TRUE]
RepoUrls == {PlainUrl, PhraseUrl}
Urls     == {NoUrl} \cup RepoUrls

\* repository_type values callers pass to call_tool ('public' is the default), and the
\* values a query's "Type:" line may carry (the app writes "Public" or "Private").
Types      == {"public", "Public", "private", "Private"}
QueryTypes == {"Public", "Private", "internal"}

\* str.lower() on the repository types above.
Lower(s) ==
    CASE s = "Private" -> "private"
      [] s = "PRIVATE" -> "private"
      [] s = "Public"  -> "public"
      [] OTHER         -> s

----------------------------------------------------------------------------
(* Substring markers the code tests for with "in"                          *)

M_REAL         == "Real Repository Data from MCP Server"
M_INDEXING     == "Repository Indexing:"
M_SEARCH       == "Search Results for"
M_MANUAL       == "Manual Analysis Steps"
M_PREREQ       == "Prerequisites for"
M_ZERO         == "\"results\": []"
M_STATUS_ERROR == "\"status\": \"error\""
M_ERR_SEARCH   == "Error searching"
M_NOT_FOUND    == "not found"

----------------------------------------------------------------------------
(* What the tool server can answer.  A response is an exception (RAISE),   *)
(* an empty content list (NO_CONTENT) or a content list whose text is one  *)
(* of the documents below.                                                 *)

RAISE      == "<raise>"
NO_CONTENT == "<no content>"

BLANK            == "   "
INDEX_TEXT       == "Indexed repository (41 files)"
INDEX_JSON       == "{\"status\": \"success\", \"index_path\": \"/idx/b_idx\"}"
SEARCH_HITS      == "{\"results\": [{\"file\": \"README.md\", \"score\": 0.9, ...}]}"
SEARCH_ZERO      == "{\"results\": []}"
SEARCH_ERROR     == "Error searching repository: index missing"
FILE_TEXT        == "# README ... (long file)"
FILE_STATUS_ERR  == "{\"status\": \"error\", \"message\": \"no such path\"}"
FILE_NOT_FOUND   == "File Not Found"

\* "marker in content" for the documents above.
ContentHas(c, m) ==
    CASE c = SEARCH_ZERO     -> m = M_ZERO
      [] c = SEARCH_ERROR    -> m = M_ERR_SEARCH
      [] c = FILE_STATUS_ERR -> m = M_STATUS_ERROR
      [] c = FILE_NOT_FOUND  -> m = M_NOT_FOUND
      [] OTHER               -> FALSE

\* len(content)
ContentLen(c) ==
    CASE c = BLANK           -> 3
      [] c = INDEX_TEXT      -> 29
      [] c = INDEX_JSON      -> 51
      [] c = SEARCH_HITS     -> 300
      [] c = SEARCH_ZERO     -> 15
      [] c = SEARCH_ERROR    -> 41
      [] c = FILE_TEXT       -> 800
      [] c = FILE_STATUS_ERR -> 50
      [] c = FILE_NOT_FOUND  -> 14
      [] OTHER               -> 0

\* content.strip() is empty
IsBlank(c) == c = BLANK

IndexResponses  == {RAISE, NO_CONTENT, INDEX_TEXT, INDEX_JSON}
SearchResponses == {RAISE, NO_CONTENT, SEARCH_ZERO, SEARCH_ERROR, SEARCH_HITS}
FileResponses   == {RAISE, NO_CONTENT, FILE_STATUS_ERR, FILE_NOT_FOUND, FILE_TEXT}

HasContent(resp) == resp # RAISE /\ resp # NO_CONTENT

----------------------------------------------------------------------------
(* Names, index addresses and file paths                                   *)

\* a name "<stem>[.git][_git]"
Name(stem, dotgit, ugit) == [stem |-> stem, dotgit |-> dotgit, ugit |-> ugit]

\* repo_url.split('/')[-1]
LastSegment(url) == Name(url.stem, url.dotgit, FALSE)

\* s.replace('.git', '')
StripDotGit(n) == [n EXCEPT !.dotgit = FALSE]

\* f"{name}_git"
WithGitSuffix(n) == [n EXCEPT !.ugit = TRUE]

\* repo_url.split('/')[-1].replace('.git', '')
RepoNameOfUrl(url) == StripDotGit(LastSegment(url))

\* json.loads(content)['index_path'].split('/')[-1] for the documents above
IndexNameIn(c) == Name("b_idx", FALSE, FALSE)

\* content.strip().startswith('{') and 'index_path' in json.loads(content)
NamesIndexPath(c) == c = INDEX_JSON

----------------------------------------------------------------------------
(* Texts                                                                   *)

NoText == [kind |-> "none"]

\* "marker in repo_url": only the phrase URL carries a marker
UrlHas(url, m) == url.stem = m

\* a variant of the private template whose status line follows the server verdict
FallbackTextByVerdict(url, type, tool) ==
    IF url = NoUrl
    THEN [kind |-> "fallback_general", tool |-> tool]
    ELSE IF Lower(type) = "public"
    THEN [kind |-> "fallback_public", url |-> url, tool |-> tool]
    ELSE [kind |-> "fallback_private", url |-> url, tool |-> tool,
          token_configured |-> mcp_available]

\* _fallback_analysis: the three templates, by the values interpolated into them
\* (the private template also prints whether self.github_token is set)
FallbackText(url, type, tool) ==
    IF url = NoUrl
    THEN [kind |-> "fallback_general", tool |-> tool]
    ELSE IF Lower(type) = "public"
    THEN [kind |-> "fallback_public", url |-> url, tool |-> tool]
    ELSE [kind |-> "fallback_private", url |-> url, tool |-> tool,
          token_configured |-> (mcp_token # NoToken)]

\* f"**Real Repository Data from MCP Server:**\n\n{content_text}"
RealText(c) == [kind |-> "real", content |-> c]

\* "\n\n".join(results)
\* a variant of the joined text that puts the latest entry first
AnalysisTextNewestFirst(results) ==
    [kind |-> "analysis",
     parts |-> [i \in 1..Len(results) |-> results[Len(results) + 1 - i]]]

\* "\n\n".join(results)
AnalysisText(results) == [kind |-> "analysis", parts |-> results]

\* f"Repository analysis attempted for {repo_url}. Index creation may have succeeded, ..."
NoResultsText(url) == [kind |-> "no_results", url |-> url]

\* the entries of the analysis' results list
PREVIEW == 500
Min(a, b) == IF a < b THEN a ELSE b
\* f"**Repository Indexing:**\n{content}"
IndexPart(c) == [label |-> "index", item |-> "", content |-> c, shown |-> ContentLen(c)]
\* f"**Repository Indexing:** Failed - {str(e)}"
IndexFailedPart == [label |-> "index_failed", item |-> "", content |-> RAISE, shown |-> 0]
\* f"**Search Results for '{query}':**\n{content}"
SearchPart(query, c) == [label |-> "search", item |-> query, content |-> c, shown |-> ContentLen(c)]
\* a variant of the file entry that holds the whole content
FilePartWhole(file, c) ==
    [label |-> "file", item |-> file, content |-> c, shown |-> ContentLen(c)]

\* f"**{file}:**\n{content[:500]}..."
FilePart(file, c) == [label |-> "file", item |-> file, content |-> c,
                      shown |-> Min(ContentLen(c), PREVIEW)]

PartHas(p, m) ==
    CASE p.label = "index"        -> m = M_INDEXING \/ ContentHas(p.content, m)
      [] p.label = "index_failed" -> m = M_INDEXING
      [] p.label = "search"       -> m = M_SEARCH \/ ContentHas(p.content, m)
      [] OTHER                    -> ContentHas(p.content, m)

\* "marker in text"
Contains(text, m) ==
    CASE text.kind = "real"             -> m = M_REAL \/ ContentHas(text.content, m)
      [] text.kind = "analysis"         -> \E i \in 1..Len(text.parts) : PartHas(text.parts[i], m)
      [] text.kind = "no_results"       -> UrlHas(text.url, m)
      [] text.kind = "fallback_public"  -> m = M_MANUAL \/ UrlHas(text.url, m)
      [] text.kind = "fallback_private" -> m = M_PREREQ \/ UrlHas(text.url, m)
      [] OTHER                          -> FALSE

\* len(text) > 100: the guidance templates are several hundred characters long
LongerThan100(text) ==
    CASE text.kind = "real" -> 44 + ContentLen(text.content) > 100
      [] text.kind = "none" -> FALSE
      [] OTHER              -> TRUE

\* the text was synthesized by _fallback_analysis
IsFallback(text) == text.kind \in {"fallback_general", "fallback_public", "fallback_private"}

\* the text carries content a live server tool call returned
IsLiveData(text) ==
    \/ text.kind = "real"
    \/ /\ text.kind = "analysis"
       /\ \E i \in 1..Len(text.parts) : text.parts[i].label \in {"index", "search", "file"}

----------------------------------------------------------------------------
(* Tool catalogs                                                           *)

None == << >>

LiveCatalog == << "create_research_repository", "search_research_repository",
                  "search_repos_on_github", "access_file", "repository_analysis" >>

FallbackCatalog == << "basic_repository_info", "repository_guidance" >>

\* tool names callers pass to call_tool ('analyze_repository' is in no catalog)
ToolNames == { "repository_analysis", "search_research_repository", "access_file",
               "analyze_repository" }

\* the tool lists a live server session may report
ServerToolSets ==
    { { "create_research_repository", "search_research_repository", "access_file" },
      { "create_research_repository", "search_research_repository" },
      { "search_research_repository", "access_file" },
      { } }

----------------------------------------------------------------------------
(* Frames                                                                  *)

UNSET == "<unset>"

NoRet   == [op |-> "none", outcome |-> "none", value |-> FALSE]
NoProbe == [uvx_checked |-> FALSE, uvx |-> "none", launched |-> FALSE, outcome |-> "none",
            killed |-> FALSE, running |-> FALSE, env_token |-> UNSET]
NoCall  == [tool |-> "none"]

NoCt == [caller |-> "none", tool_name |-> "", repo_url |-> NoUrl, repo_type |-> "public",
         token_available |-> FALSE, outcome |-> "none", result |-> NoText,
         live_path |-> FALSE, fault |-> FALSE, launches |-> 0, sessions |-> 0, env_token |-> UNSET,
         available_tools |-> {}, last_call |-> NoCall]

\* repo_info as _parse_repository_info initialises it
DefaultRepoInfo == [has_repo |-> FALSE, url |-> NoUrl, type |-> "public",
                    token_status |-> "no_token"]

NoPrompt == [banners |-> {}, results_section |-> FALSE]

IdlePq == [active |-> FALSE, query |-> << >>, repo_info |-> DefaultRepoInfo, tools |-> None,
           tool_results |-> << >>, stage |-> "none", tool_calls |-> 0,
           index_name |-> Name("", FALSE, FALSE),
           inference_calls |-> 0, prompt |-> NoPrompt]

NoCa == [repo_name |-> Name("", FALSE, FALSE), index_created |-> FALSE, index_calls |-> 0,
         index_fault |-> FALSE,
         results |-> << >>, item |-> 0, attempt |-> 0, last_call |-> NoCall,
         search_issued |-> FALSE, files_done |-> 0, final |-> NoText]

----------------------------------------------------------------------------
(* MCPIntegration: setup_client, list_tools, update_github_token, close    *)

\* subprocess.run(['uvx', '--version']): exit status 0, another status, or an exception
UvxOutcomes == {"ok", "nonzero", "missing"}

\* a variant of the runner check that only fails when the runner cannot be started
check_uvx_available_lenient(u) == u # "missing"

\* _check_uvx_available
check_uvx_available(u) == u = "ok"

\* What happens to the server process launched by _test_mcp_server:
\*   launch_exception      Popen raises, no process exists
\*   exit_0                exits with status 0 within the timeout
\*   exit_error            exits with another status, stderr does not mention "MCP server"
\*   exit_error_banner     exits with another status, stderr mentions "MCP server"
\*   timeout               still running after 10 s (TimeoutExpired)
\*   communicate_exception communicate raises something other than TimeoutExpired
\*                         while the process is still running
ProbeOutcomes == {"launch_exception", "exit_0", "exit_error", "exit_error_banner",
                  "timeout", "communicate_exception"}

\* a variant of the probe's verdict that does not count a server still running
test_mcp_server_exited_only(p) == p \in {"exit_0", "exit_error_banner"}

\* _test_mcp_server's return value
test_mcp_server(p) == p \in {"exit_0", "exit_error_banner", "timeout"}

\* process.kill() is called in the TimeoutExpired handler only
ProbeKills(p) == p = "timeout"

\* the trace setup_client leaves: what the runner check met, was a server process
\* started, was it killed, is it still running when _test_mcp_server returns, and
\* the GITHUB_TOKEN entry the program put into its environment (from the github_token
\* of the integration being set up)
ProbeTrace(u, p) ==
    IF ~check_uvx_available(u)
    THEN [NoProbe EXCEPT !.uvx_checked = TRUE, !.uvx = u, !.outcome = "not_run"]
    ELSE [uvx_checked |-> TRUE,
          uvx         |-> u,
          launched    |-> p # "launch_exception",
          outcome     |-> p,
          killed      |-> ProbeKills(p),
          running     |-> p \in {"timeout", "communicate_exception"} /\ ~ProbeKills(p),
          env_token   |-> IF mcp_token' # NoToken THEN mcp_token' ELSE UNSET]

\* a variant of setup_client that stays unconnected when the server is not available
SetupClientBodyStrict(u, p) ==
    LET ok == check_uvx_available(u) /\ test_mcp_server(p) IN
    /\ mcp_available' = ok
    /\ tools_cache' = IF ok THEN LiveCatalog ELSE None
    /\ connected' = ok
    /\ probe' = ProbeTrace(u, p)

\* a variant of setup_client whose fallback keeps a catalog that is already there
SetupClientBodyKeepCatalog(u, p) ==
    LET ok == check_uvx_available(u) /\ test_mcp_server(p) IN
    /\ mcp_available' = ok
    /\ tools_cache' = IF ok THEN LiveCatalog
                      ELSE IF tools_cache = None THEN FallbackCatalog ELSE tools_cache
    /\ connected' = TRUE
    /\ probe' = ProbeTrace(u, p)

\* setup_client with _setup_fallback: u and p are what the runner check and the probe meet
SetupClientBody(u, p) ==
    LET ok == check_uvx_available(u) /\ test_mcp_server(p) IN
    /\ mcp_available' = ok
    /\ tools_cache' = IF ok THEN LiveCatalog ELSE FallbackCatalog
    /\ connected' = TRUE
    /\ probe' = ProbeTrace(u, p)

SetupClient ==
    /\ pc = "idle" /\ driver = "integration"
    /\ mcp_token' = mcp_token
    /\ \E u \in UvxOutcomes, p \in ProbeOutcomes : SetupClientBody(u, p)
    /\ ret' = [op |-> "setup_client", outcome |-> "returned", value |-> TRUE]
    /\ pc' = "done"
    /\ UNCHANGED << driver, agentVars, ct, ca, pq >>

\* a variant of list_tools that returns the cache without looking at _connected
ListToolsUnchecked ==
    /\ pc = "idle" /\ driver = "integration"
    /\ ret' = [op |-> "list_tools", outcome |-> "returned", value |-> tools_cache]
    /\ pc' = "done"
    /\ UNCHANGED << driver, agentVars, mcpVars, probe, ct, ca, pq >>

ListTools ==
    /\ pc = "idle" /\ driver = "integration"
    /\ ret' = IF ~connected
              THEN [op |-> "list_tools", outcome |-> "RuntimeError", value |-> FALSE]
              ELSE [op |-> "list_tools", outcome |-> "returned", value |-> tools_cache]
    /\ pc' = "done"
    /\ UNCHANGED << driver, agentVars, mcpVars, probe, ct, ca, pq >>

\* MCPIntegration.get_tool_descriptions: the names of list_tools, {} when that raises
GetToolDescriptions ==
    /\ pc = "idle" /\ driver = "integration"
    /\ ret' = [op |-> "get_tool_descriptions", outcome |-> "returned",
               value |-> IF connected THEN tools_cache ELSE None]
    /\ pc' = "done"
    /\ UNCHANGED << driver, agentVars, mcpVars, probe, ct, ca, pq >>

\* a variant of update_github_token that sets the client up again with the new token
UpdateTokenReprobing ==
    /\ pc = "idle" /\ driver = "integration"
    /\ \E t \in Tokens : mcp_token' = t
    /\ \E u \in UvxOutcomes, p \in ProbeOutcomes : SetupClientBody(u, p)
    /\ ret' = [op |-> "update_github_token", outcome |-> "returned", value |-> FALSE]
    /\ pc' = "done"
    /\ UNCHANGED << driver, agentVars, ct, ca, pq >>

\* MCPIntegration.update_github_token
UpdateToken ==
    /\ pc = "idle" /\ driver = "integration"
    /\ \E t \in Tokens : mcp_token' = t
    /\ ret' = [op |-> "update_github_token", outcome |-> "returned", value |-> FALSE]
    /\ pc' = "done"
    /\ UNCHANGED << driver, agentVars, tools_cache, connected, mcp_available, probe, ct, ca, pq >>

\* MCPIntegration.close: _mcp_available is left as it is
CloseBody ==
    /\ connected' = FALSE
    /\ tools_cache' = None
    /\ UNCHANGED << mcp_token, mcp_available >>

Close ==
    /\ pc = "idle" /\ driver = "integration"
    /\ CloseBody
    /\ ret' = [op |-> "close", outcome |-> "returned", value |-> FALSE]
    /\ pc' = "done"
    /\ UNCHANGED << driver, agentVars, probe, ct, ca, pq >>

----------------------------------------------------------------------------
(* MCPIntegration.call_tool                                                *)

\* a variant of the access validation that compares the type without lower()
AccessDeniedCaseSensitive(type, token_available) == type = "private" /\ ~token_available

\* the access validation of call_tool
AccessDenied(type, token_available) == Lower(type) = "private" /\ ~token_available

\* a variant of the dispatch test that does not look at the URL
UseLivePathAnyUrl(available, url) == available

\* the dispatch test of call_tool: "self._mcp_available and repo_url"
UseLivePath(available, url) == available /\ url # NoUrl

\* call_tool up to the dispatch; the live path continues at pc = "ct_import".
\* In the frame, fault records that _call_real_mcp_tool's own try block caught an
\* exception (import, session, the single tool call, leaving the session).
CallToolBody(tool, url, type, token_available, caller) ==
    LET frame == [NoCt EXCEPT !.caller = caller, !.tool_name = tool, !.repo_url = url,
                              !.repo_type = type, !.token_available = token_available] IN
    /\ ca' = NoCa
    /\ IF ~connected
       THEN /\ ct' = [frame EXCEPT !.outcome = "RuntimeError"]
            /\ pc' = "ct_done"
       ELSE IF AccessDenied(type, token_available)
       THEN /\ ct' = [frame EXCEPT !.outcome = "ValueError"]
            /\ pc' = "ct_done"
       ELSE IF UseLivePath(mcp_available, url)
       THEN /\ ct' = [frame EXCEPT !.live_path = TRUE]
            /\ pc' = "ct_import"
       ELSE /\ ct' = [frame EXCEPT !.outcome = "returned",
                                   !.result = FallbackText(url, type, tool)]
            /\ pc' = "ct_done"

CallTool ==
    /\ pc = "idle" /\ driver = "integration"
    /\ \E tool \in ToolNames, url \in Urls, type \in Types, ta \in BOOLEAN :
           CallToolBody(tool, url, type, ta, "direct")
    /\ UNCHANGED << driver, agentVars, mcpVars, ret, probe, pq >>

\* the result every recovered fault of the live path turns into
LiveFallback == FallbackText(ct.repo_url, ct.repo_type, ct.tool_name)

\* env["GITHUB_TOKEN"] as _call_real_mcp_tool sets it
\* a variant that hands the session's token over whatever the call says
LiveEnvTokenOfSession(token_available) ==
    IF mcp_token # NoToken THEN mcp_token ELSE ""

LiveEnvToken(token_available) ==
    IF token_available /\ mcp_token # NoToken THEN mcp_token ELSE ""

\* _call_real_mcp_tool: "from mcp import ..." and the environment of the server
CtImport ==
    /\ pc = "ct_import"
    /\ \E import_ok \in BOOLEAN :
         IF import_ok
         THEN /\ ct' = [ct EXCEPT !.env_token = LiveEnvToken(ct.token_available)]
              /\ pc' = "ct_connect"
         ELSE /\ ct' = [ct EXCEPT !.fault = TRUE, !.outcome = "returned",
                                   !.result = LiveFallback]
              /\ pc' = "ct_done"
    /\ UNCHANGED << driver, agentVars, mcpVars, ret, probe, ca, pq >>

\* how opening the session can go: the server process cannot be started, the session
\* starts but initialize() or list_tools() raises, or the tool list arrives
ConnectOutcomes == {"spawn_failed", "session_failed", "ok"}

\* _comprehensive_repository_analysis: repo_name as first derived from the URL
StartAnalysis == [NoCa EXCEPT !.repo_name = RepoNameOfUrl(ct.repo_url), !.item = 1]

\* _call_real_mcp_tool: stdio_client, ClientSession, initialize, list_tools
CtConnect ==
    /\ pc = "ct_connect"
    /\ \E o \in ConnectOutcomes, tools \in ServerToolSets :
         CASE o = "spawn_failed" ->
                /\ ct' = [ct EXCEPT !.launches = 1, !.fault = TRUE,
                                    !.outcome = "returned", !.result = LiveFallback]
                /\ pc' = "ct_done"
                /\ ca' = ca
           [] o = "session_failed" ->
                /\ ct' = [ct EXCEPT !.launches = 1, !.sessions = 1, !.fault = TRUE,
                                    !.outcome = "returned", !.result = LiveFallback]
                /\ pc' = "ct_done"
                /\ ca' = ca
           [] OTHER ->
                /\ ct' = [ct EXCEPT !.launches = 1, !.sessions = 1, !.available_tools = tools]
                /\ IF ct.tool_name = "repository_analysis"
                   THEN pc' = "ca_index" /\ ca' = StartAnalysis
                   ELSE pc' = "ct_call" /\ ca' = ca
    /\ UNCHANGED << driver, agentVars, mcpVars, ret, probe, pq >>

\* the index address and file path _call_real_mcp_tool guesses for a single call
FilePath(root, sub, file) == [root |-> root, repository |-> sub, file |-> file]

SingleToolArgs(tool, url) ==
    CASE tool = "create_research_repository" -> [repository_path |-> url]
      [] tool = "search_research_repository" -> [index_path |-> WithGitSuffix(RepoNameOfUrl(url))]
      [] tool = "access_file" ->
             [filepath |-> FilePath(WithGitSuffix(RepoNameOfUrl(url)), TRUE, "README.md")]
      [] OTHER -> [repository_url |-> url]

SingleResponses(tool) ==
    CASE tool = "search_research_repository" -> SearchResponses \cup {BLANK}
      [] tool = "access_file"                -> FileResponses \cup {BLANK}
      [] OTHER                               -> IndexResponses \cup {BLANK}

\* a variant that returns nothing for a response without text
SingleResultOrNothing(resp) ==
    IF HasContent(resp) /\ ~IsBlank(resp) THEN RealText(resp) ELSE NoText

\* what _call_real_mcp_tool returns for one tool call's response
SingleResult(resp) ==
    IF HasContent(resp) /\ ~IsBlank(resp) THEN RealText(resp) ELSE LiveFallback

\* _call_real_mcp_tool for a tool other than repository_analysis: the tool is looked up
\* in the server's list, called once, and the session is closed on the way out
\* (an exception while leaving the session is caught like any other)
CtCall ==
    /\ pc = "ct_call"
    /\ IF ct.tool_name \notin ct.available_tools
       THEN ct' = [ct EXCEPT !.outcome = "returned", !.result = LiveFallback]
       ELSE \E resp \in SingleResponses(ct.tool_name), close_ok \in BOOLEAN :
              ct' = [ct EXCEPT
                       !.outcome = "returned",
                       !.fault = (resp = RAISE \/ ~close_ok),
                       !.last_call = [tool |-> ct.tool_name,
                                      args |-> SingleToolArgs(ct.tool_name, ct.repo_url),
                                      response |-> resp],
                       !.result = IF close_ok THEN SingleResult(resp) ELSE LiveFallback]
    /\ pc' = "ct_done"
    /\ UNCHANGED << driver, agentVars, mcpVars, ret, probe, ca, pq >>

----------------------------------------------------------------------------
(* MCPIntegration._comprehensive_repository_analysis                       *)

SearchQueries == << "README documentation overview",
                    "architecture structure organization",
                    "dependencies requirements setup" >>

KeyFiles == << "README.md", "package.json", "requirements.txt", "Dockerfile", "setup.py" >>

\* the index addresses tried for one search query, in order
PossibleIndexPaths(repo_name, url) ==
    << repo_name, WithGitSuffix(repo_name), LastSegment(url), RepoNameOfUrl(url) >>

\* a variant with a fifth path for each key file
PossiblePathsFive(repo_name, file) ==
    << FilePath(repo_name, TRUE, file),
       FilePath(WithGitSuffix(repo_name), TRUE, file),
       FilePath(repo_name, FALSE, file),
       FilePath(WithGitSuffix(repo_name), FALSE, file),
       FilePath(repo_name, TRUE, file) >>

\* the paths tried for one key file, in order
PossiblePaths(repo_name, file) ==
    << FilePath(repo_name, TRUE, file),
       FilePath(WithGitSuffix(repo_name), TRUE, file),
       FilePath(repo_name, FALSE, file),
       FilePath(WithGitSuffix(repo_name), FALSE, file) >>

\* a variant of the search filter that records any content
SearchAcceptsAnyContent(resp) == HasContent(resp)

\* a search response is recorded: it has content without '"results": []' or 'Error searching'
SearchAccepts(resp) ==
    HasContent(resp) /\ ~ContentHas(resp, M_ZERO) /\ ~ContentHas(resp, M_ERR_SEARCH)

\* "marker in content.lower()"
ContentLowerHas(c, m) == ContentHas(c, m) \/ (c = FILE_NOT_FOUND /\ m = M_NOT_FOUND)

\* a file response is recorded: it has content without '"status": "error"' or 'not found'
FileAccepts(resp) ==
    HasContent(resp) /\ ~ContentHas(resp, M_STATUS_ERROR) /\ ~ContentLowerHas(resp, M_NOT_FOUND)

\* a variant of the step 2 guard that does not look at index_created
StageAfterIndexAlwaysSearch(created, tools) ==
    IF "search_research_repository" \in tools THEN "ca_search"
    ELSE IF "access_file" \in tools THEN "ca_file"
    ELSE "ca_done"

\* the stage that follows step 1 ("if index_created and ... in available_tools")
StageAfterIndex(created, tools) ==
    IF created /\ "search_research_repository" \in tools THEN "ca_search"
    ELSE IF "access_file" \in tools THEN "ca_file"
    ELSE "ca_done"

\* a variant that builds the index again once the searches are over
StageAfterSearchReindexing(tools) == "ca_index"

\* the stage that follows step 2
StageAfterSearch(tools) == IF "access_file" \in tools THEN "ca_file" ELSE "ca_done"

\* a variant that keeps the URL-derived name whatever the index response says
RepoNameAfterIndexKeep(repo_name, content) == repo_name

\* the name later stages use after an index response with content
RepoNameAfterIndex(repo_name, content) ==
    IF NamesIndexPath(content) THEN IndexNameIn(content) ELSE repo_name

\* Step 1: create_research_repository, once (index_fault: the call raised and the
\* stage's own except clause recorded it)
CaIndex ==
    /\ pc = "ca_index"
    /\ IF "create_research_repository" \notin ct.available_tools
       THEN /\ ca' = ca
            /\ pc' = StageAfterIndex(FALSE, ct.available_tools)
       ELSE \E resp \in IndexResponses :
              LET created == HasContent(resp)
                  call == [tool |-> "create_research_repository", item |-> 1, variant |-> 1,
                           address |-> ct.repo_url, response |-> resp]
              IN
              /\ ca' = [ca EXCEPT
                          !.index_calls = 1,
                          !.last_call = call,
                          !.index_created = created,
                          !.index_fault = (resp = RAISE),
                          !.results = IF created THEN Append(@, IndexPart(resp))
                                      ELSE IF resp = RAISE THEN Append(@, IndexFailedPart)
                                      ELSE @,
                          !.repo_name = IF created THEN RepoNameAfterIndex(@, resp) ELSE @]
              /\ pc' = StageAfterIndex(created, ct.available_tools)
    /\ UNCHANGED << driver, agentVars, mcpVars, ret, probe, ct, pq >>

\* Step 2: one search call; ca.item is the query, ca.attempt the variants already tried
CaSearch ==
    /\ pc = "ca_search"
    /\ \E resp \in SearchResponses :
         LET paths    == PossibleIndexPaths(ca.repo_name, ct.repo_url)
             v        == ca.attempt + 1
             accepted == SearchAccepts(resp)
             finished == accepted \/ v = Len(paths)
             call     == [tool |-> "search_research_repository", item |-> ca.item,
                          variant |-> v, address |-> paths[v], response |-> resp]
         IN
         /\ ca' = [ca EXCEPT
                     !.search_issued = TRUE,
                     !.last_call = call,
                     !.results = IF accepted
                                 THEN Append(@, SearchPart(SearchQueries[ca.item], resp))
                                 ELSE @,
                     !.item    = IF ~finished THEN @
                                 ELSE IF ca.item = Len(SearchQueries) THEN 1 ELSE @ + 1,
                     !.attempt = IF finished THEN 0 ELSE v]
         /\ pc' = IF finished /\ ca.item = Len(SearchQueries)
                  THEN StageAfterSearch(ct.available_tools)
                  ELSE "ca_search"
    /\ UNCHANGED << driver, agentVars, mcpVars, ret, probe, ct, pq >>

\* Step 3: one access_file call; ca.item is the file, ca.attempt the paths already tried
CaFile ==
    /\ pc = "ca_file"
    /\ \E resp \in FileResponses :
         LET paths    == PossiblePaths(ca.repo_name, KeyFiles[ca.item])
             v        == ca.attempt + 1
             accepted == FileAccepts(resp)
             finished == accepted \/ v = Len(paths)
             call     == [tool |-> "access_file", item |-> ca.item,
                          variant |-> v, address |-> paths[v], response |-> resp]
         IN
         /\ ca' = [ca EXCEPT
                     !.last_call = call,
                     !.results = IF accepted
                                 THEN Append(@, FilePart(KeyFiles[ca.item], resp))
                                 ELSE @,
                     !.files_done = IF finished THEN @ + 1 ELSE @,
                     !.item    = IF ~finished THEN @
                                 ELSE IF ca.item = Len(KeyFiles) THEN 1 ELSE @ + 1,
                     !.attempt = IF finished THEN 0 ELSE v]
         /\ pc' = IF finished /\ ca.item = Len(KeyFiles) THEN "ca_done" ELSE "ca_file"
    /\ UNCHANGED << driver, agentVars, mcpVars, ret, probe, ct, pq >>

\* a variant of the returned text that leaves a failed indexing entry out
FinalResultDropFailure(results, url) ==
    IF results # << >> /\ Head(results) # IndexFailedPart
    THEN AnalysisText(results) ELSE NoResultsText(url)

\* the text the analysis returns
FinalResult(results, url) ==
    IF results # << >> THEN AnalysisText(results) ELSE NoResultsText(url)

\* the analysis returns, and _call_real_mcp_tool returns its text through the closing
\* session (an exception while leaving the session is caught and gives the fallback)
CaDone ==
    /\ pc = "ca_done"
    /\ \E close_ok \in BOOLEAN :
         LET final == FinalResult(ca.results, ct.repo_url) IN
         /\ ca' = [ca EXCEPT !.final = final, !.last_call = NoCall]
         /\ ct' = [ct EXCEPT !.outcome = "returned",
                             !.fault = ~close_ok,
                             !.result = IF close_ok THEN final ELSE LiveFallback]
    /\ pc' = "ct_done"
    /\ UNCHANGED << driver, agentVars, mcpVars, ret, probe, pq >>

\* call_tool hands its result (or exception) to a direct caller
CtReturn ==
    /\ pc = "ct_done" /\ ct.caller = "direct"
    /\ pc' = "idle"
    /\ ct' = NoCt /\ ca' = NoCa
    /\ UNCHANGED << driver, agentVars, mcpVars, ret, probe, pq >>

\* the caller has seen the outcome of a finished operation
Return ==
    /\ pc = "done"
    /\ pc' = "idle"
    /\ ret' = NoRet /\ probe' = NoProbe /\ pq' = IdlePq
    /\ UNCHANGED << driver, agentVars, mcpVars, ct, ca >>

----------------------------------------------------------------------------
(* AgentManager: initialize_agent, update_github_token, cleanup            *)

\* the identifier _find_and_test_nova_model tests and pins
NOVA_MODEL_ID == "amazon.nova-pro-v1:0"
DEFAULT_MODEL_ID == "us.amazon.nova-pro-v1:0"

\* how the test invoke_model call can go: it returns, or it raises an error whose
\* text does not or does contain the model identifier
TestOutcomes == {"ok", "error", "error_naming_model"}

NoDetail == [message |-> "", error |-> "none"]

\* "<identifier> in str(exception)" for the exception _find_and_test_nova_model raises
DetailNames(detail, id) == detail.error = "error_naming_model" /\ id = NOVA_MODEL_ID

\* a variant of the resolution that tests the model without storing its identifier
find_and_test_nova_model_no_pin(t) ==
    [calls  |-> << NOVA_MODEL_ID >>,
     raised |-> t # "ok",
     pin    |-> BEDROCK_MODEL_ID,
     detail |-> IF t = "ok" THEN NoDetail
                ELSE [message |-> "Could not access Nova Pro model. Error: ", error |-> t]]

\* a variant of the resolution that logs a failed test and returns
find_and_test_nova_model_swallow(t) ==
    [calls  |-> << NOVA_MODEL_ID >>,
     raised |-> FALSE,
     pin    |-> IF t = "ok" THEN NOVA_MODEL_ID ELSE BEDROCK_MODEL_ID,
     detail |-> NoDetail]

\* a variant of the resolution that puts the default identifier back on a failed test
find_and_test_nova_model_unpin(t) ==
    [calls  |-> << NOVA_MODEL_ID >>,
     raised |-> t # "ok",
     pin    |-> IF t = "ok" THEN NOVA_MODEL_ID ELSE DEFAULT_MODEL_ID,
     detail |-> IF t = "ok" THEN NoDetail
                ELSE [message |-> "Could not access Nova Pro model. Error: ", error |-> t]]

\* _find_and_test_nova_model: the test calls issued in order, whether it raises, the
\* value of Config.BEDROCK_MODEL_ID afterwards and the raised exception's text
find_and_test_nova_model(t) ==
    [calls  |-> << NOVA_MODEL_ID >>,
     raised |-> t # "ok",
     pin    |-> IF t = "ok" THEN NOVA_MODEL_ID ELSE BEDROCK_MODEL_ID,
     detail |-> IF t = "ok" THEN NoDetail
                ELSE [message |-> "Could not access Nova Pro model. Error: ", error |-> t]]

\* what initialize_agent reports: the test calls it made and how each went, the raised
\* text, and whether the identifier was pinned and the agent initialized when it was
\* called
InitReport(calls, tests, detail) ==
    [model_calls |-> calls, tests |-> tests, detail |-> detail,
     pinned_before |-> (BEDROCK_MODEL_ID = NOVA_MODEL_ID),
     initialized_before |-> initialized]

\* initialize_agent: boto3.client(...), the model test call, MCPIntegration(token),
\* setup_client.  client_ok: boto3.client returns; t: how the test invoke_model goes.
InitializeAgent ==
    /\ pc = "idle" /\ driver = "agent"
    /\ \E client_ok \in BOOLEAN, t \in TestOutcomes, u \in UvxOutcomes, p \in ProbeOutcomes :
         LET r == find_and_test_nova_model(t) IN
         IF ~client_ok
         THEN /\ ret' = [op |-> "initialize_agent", outcome |-> "ClientError",
                         value |-> InitReport(<< >>, << >>, NoDetail)]
              /\ UNCHANGED << agentVars, mcpVars, probe >>
         ELSE IF r.raised
         THEN /\ bedrock_client' = TRUE
              /\ BEDROCK_MODEL_ID' = r.pin
              /\ ret' = [op |-> "initialize_agent", outcome |-> "ModelError",
                         value |-> InitReport(r.calls, << t >>, r.detail)]
              /\ UNCHANGED << github_token, mcp_integration, initialized, mcpVars, probe >>
         ELSE /\ bedrock_client' = TRUE
              /\ BEDROCK_MODEL_ID' = r.pin
              /\ mcp_integration' = TRUE
              /\ mcp_token' = github_token
              /\ SetupClientBody(u, p)
              /\ initialized' = TRUE
              /\ ret' = [op |-> "initialize_agent", outcome |-> "returned",
                         value |-> InitReport(r.calls, << t >>, r.detail)]
              /\ UNCHANGED github_token
    /\ pc' = "done"
    /\ UNCHANGED << driver, ct, ca, pq >>

\* a variant of AgentManager.update_github_token that keeps the token to itself
AgentUpdateTokenNotForwarding ==
    /\ pc = "idle" /\ driver = "agent"
    /\ \E t \in Tokens : github_token' = t
    /\ ret' = [op |-> "update_github_token", outcome |-> "returned", value |-> FALSE]
    /\ pc' = "done"
    /\ UNCHANGED << driver, bedrock_client, mcp_integration, initialized, BEDROCK_MODEL_ID,
                    mcpVars, probe, ct, ca, pq >>

\* AgentManager.update_github_token
AgentUpdateToken ==
    /\ pc = "idle" /\ driver = "agent"
    /\ \E t \in Tokens :
         /\ github_token' = t
         /\ mcp_token' = IF mcp_integration THEN t ELSE mcp_token
    /\ ret' = [op |-> "update_github_token", outcome |-> "returned", value |-> FALSE]
    /\ pc' = "done"
    /\ UNCHANGED << driver, bedrock_client, mcp_integration, initialized, BEDROCK_MODEL_ID,
                    tools_cache, connected, mcp_available, probe, ct, ca, pq >>

\* AgentManager.cleanup
\* a variant of cleanup that drops the integration and keeps the initialized flag
CleanupKeepingInitialized ==
    /\ pc = "idle" /\ driver = "agent"
    /\ IF mcp_integration THEN CloseBody ELSE UNCHANGED mcpVars
    /\ bedrock_client' = FALSE
    /\ mcp_integration' = FALSE
    /\ ret' = [op |-> "cleanup", outcome |-> "returned", value |-> FALSE]
    /\ pc' = "done"
    /\ UNCHANGED << driver, github_token, initialized, BEDROCK_MODEL_ID, probe, ct, ca, pq >>

\* a variant of cleanup that puts the configured default identifier back
CleanupResettingModel ==
    /\ pc = "idle" /\ driver = "agent"
    /\ IF mcp_integration THEN CloseBody ELSE UNCHANGED mcpVars
    /\ bedrock_client' = FALSE
    /\ mcp_integration' = FALSE
    /\ initialized' = FALSE
    /\ BEDROCK_MODEL_ID' = DEFAULT_MODEL_ID
    /\ ret' = [op |-> "cleanup", outcome |-> "returned", value |-> FALSE]
    /\ pc' = "done"
    /\ UNCHANGED << driver, github_token, probe, ct, ca, pq >>

Cleanup ==
    /\ pc = "idle" /\ driver = "agent"
    /\ IF mcp_integration THEN CloseBody ELSE UNCHANGED mcpVars
    /\ bedrock_client' = FALSE
    /\ mcp_integration' = FALSE
    /\ initialized' = FALSE
    /\ ret' = [op |-> "cleanup", outcome |-> "returned", value |-> FALSE]
    /\ pc' = "done"
    /\ UNCHANGED << driver, github_token, BEDROCK_MODEL_ID, probe, ct, ca, pq >>

\* is_initialized and get_connection_status
is_initialized == initialized /\ bedrock_client

ConnectionStatus ==
    [agent_initialized |-> is_initialized,
     bedrock_model     |-> bedrock_client,
     mcp_connected     |-> IF mcp_integration THEN connected ELSE FALSE,
     github_token_set  |-> github_token # NoToken]

GetConnectionStatus ==
    /\ pc = "idle" /\ driver = "agent"
    /\ ret' = [op |-> "get_connection_status", outcome |-> "returned", value |-> ConnectionStatus]
    /\ pc' = "done"
    /\ UNCHANGED << driver, agentVars, mcpVars, probe, ct, ca, pq >>

----------------------------------------------------------------------------
(* AgentManager._parse_repository_info                                     *)

\* A query is a sequence of lines; a line "Label: value" is [label, value], any other
\* line has the label "text".
Line(label, value) == [label |-> label, value |-> value]
QuestionLine == Line("text", "Question: What is the architecture?")

TokenStatuses == {"no_token", "with_token"}

\* The queries offered to process_query: a bare question, on one line and on two; the
\* app's four-line form
\* (the Token line takes both values on the private queries, where it could matter);
\* a Repository line alone; Type and Token lines without a Repository line.
Queries ==
    { << QuestionLine >>, << Line("text", "Hello,"), QuestionLine >> }
    \cup { << Line("Repository", u), Line("Type", t), Line("Token", "no_token"), QuestionLine >> :
             u \in Urls, t \in QueryTypes }
    \cup { << Line("Repository", u), Line("Type", "Private"), Line("Token", "with_token"),
              QuestionLine >> : u \in Urls }
    \cup { << Line("Repository", PlainUrl), QuestionLine >> }
    \cup { << Line("Type", "Private"), Line("Token", s), QuestionLine >> : s \in TokenStatuses }

\* a variant of the loop's body that reads the Type line only after a Repository line
\* with a URL
ParseLineTypeAfterRepository(info, line) ==
    CASE line.label = "Repository" ->
             [info EXCEPT !.url = line.value, !.has_repo = (line.value # NoUrl)]
      [] line.label = "Type"  -> IF info.has_repo THEN [info EXCEPT !.type = line.value]
                                 ELSE info
      [] line.label = "Token" -> [info EXCEPT !.token_status = line.value]
      [] OTHER -> info

\* the body of the loop over the lines
ParseLine(info, line) ==
    CASE line.label = "Repository" ->
             [info EXCEPT !.url = line.value, !.has_repo = (line.value # NoUrl)]
      [] line.label = "Type"  -> [info EXCEPT !.type = line.value]
      [] line.label = "Token" -> [info EXCEPT !.token_status = line.value]
      [] OTHER -> info

RECURSIVE ParseLines(_, _)
ParseLines(info, lines) ==
    IF lines = << >> THEN info
    ELSE ParseLines(ParseLine(info, Head(lines)), Tail(lines))

parse_repository_info(query) == ParseLines(DefaultRepoInfo, query)

\* a variant of can_access_repository that asks for a token for every type but public
can_access_repository_with_token(type) ==
    IF Lower(type) = "public" THEN TRUE ELSE mcp_token # NoToken

\* a variant of can_access_repository that lets every private repository through
can_access_repository_any_private(type) == Lower(type) \in {"public", "private"}

\* MCPIntegration.can_access_repository
can_access_repository(type) ==
    IF Lower(type) = "public" THEN TRUE
    ELSE IF Lower(type) = "private" THEN mcp_token # NoToken
    ELSE FALSE

----------------------------------------------------------------------------
(* AgentManager.process_query                                              *)

\* One entry of tool_results, f"**{name}**: {result}": which phrases process_query looks
\* for it carries, and (for the record) where the result came from.
ToolResult(name, text) ==
    [name     |-> name,
     has_real |-> Contains(text, M_REAL),
     live     |-> IsLiveData(text),
     fallback |-> IsFallback(text)]

\* has_real_data
HasRealData(tool_results) ==
    \E i \in 1..Len(tool_results) : tool_results[i].has_real

REAL_DATA == "REAL DATA ANALYSIS"
GUIDANCE  == "GUIDANCE MODE"
GENERAL   == "GENERAL ANALYSIS"

\* a variant of the banner lines whose guidance line is not tied to has_real_data
BannersGuidanceWithResults(tool_results) ==
    (IF HasRealData(tool_results) THEN {REAL_DATA} ELSE {})
    \cup (IF tool_results # << >> THEN {GUIDANCE} ELSE {})
    \cup (IF tool_results = << >> THEN {GENERAL} ELSE {})

\* the three conditional banner lines of full_prompt
Banners(tool_results) ==
    (IF HasRealData(tool_results) THEN {REAL_DATA} ELSE {})
    \cup (IF tool_results # << >> /\ ~HasRealData(tool_results) THEN {GUIDANCE} ELSE {})
    \cup (IF tool_results = << >> THEN {GENERAL} ELSE {})

\* full_prompt
\* a variant of the prompt that always has the section of the tool results
AssemblePromptWithSection(tool_results) ==
    [banners |-> Banners(tool_results), results_section |-> TRUE]

AssemblePrompt(tool_results) ==
    [banners |-> Banners(tool_results), results_section |-> tool_results # << >>]

\* tool_args of process_query
PqCallTool(tool, info) ==
    CallToolBody(tool, info.url, info.type, github_token # NoToken, "pq")

\* process_query up to the first tool call
ProcessQuery ==
    /\ pc = "idle" /\ driver = "agent"
    /\ \E query \in Queries :
         LET info == parse_repository_info(query) IN
         IF ~initialized
         THEN /\ ret' = [op |-> "process_query", outcome |-> "RuntimeError", value |-> FALSE]
              /\ pq' = IdlePq
              /\ pc' = "done"
              /\ UNCHANGED << ct, ca >>
         ELSE IF info.has_repo /\ ~can_access_repository(info.type)
         THEN /\ ret' = [op |-> "process_query",
                         outcome |-> IF Lower(info.type) = "private"
                                     THEN "ValueError: GitHub token is required"
                                     ELSE "ValueError: Unable to access repository",
                         value |-> FALSE]
              /\ pq' = [IdlePq EXCEPT !.active = TRUE, !.query = query, !.repo_info = info]
              /\ pc' = "done"
              /\ UNCHANGED << ct, ca >>
         ELSE IF ~connected
         THEN /\ ret' = [op |-> "process_query", outcome |-> "RuntimeError", value |-> FALSE]
              /\ pq' = [IdlePq EXCEPT !.active = TRUE, !.query = query, !.repo_info = info]
              /\ pc' = "done"
              /\ UNCHANGED << ct, ca >>
         ELSE IF info.has_repo
         THEN /\ pq' = [IdlePq EXCEPT !.active = TRUE, !.query = query, !.repo_info = info,
                                      !.tools = tools_cache, !.stage = "analysis",
                                      !.tool_calls = 1]
              /\ PqCallTool("repository_analysis", info)
              /\ ret' = ret
         ELSE /\ pq' = [IdlePq EXCEPT !.active = TRUE, !.query = query, !.repo_info = info,
                                      !.tools = tools_cache]
              /\ pc' = "pq_assemble"
              /\ ret' = ret
              /\ UNCHANGED << ct, ca >>
    /\ UNCHANGED << driver, agentVars, mcpVars, probe >>

\* the filter on an additional tool's result
KeepAdditional(text) ==
    /\ LongerThan100(text)
    /\ ~Contains(text, M_ZERO)
    /\ ~Contains(text, M_STATUS_ERROR)

\* the additional targeted calls run when this holds of the analysis' result
AnalysisWorked(text) == Contains(text, M_INDEXING)

\* a variant that keeps the analysis' result only when it is not fallback guidance
ResultsAfterCallWithoutGuidance ==
    IF ct.outcome # "returned" THEN pq.tool_results
    ELSE CASE pq.stage = "analysis" ->
                IF IsFallback(ct.result) THEN pq.tool_results
                ELSE Append(pq.tool_results,
                            ToolResult("Comprehensive Repository Analysis", ct.result))
           [] pq.stage \in {"extra1", "extra2"} ->
                IF KeepAdditional(ct.result)
                THEN Append(pq.tool_results, ToolResult(ct.tool_name, ct.result))
                ELSE pq.tool_results
           [] OTHER -> Append(pq.tool_results, ToolResult(ct.tool_name, ct.result))

\* tool_results after the call_tool that just ended, by the stage that issued it
ResultsAfterCall ==
    IF ct.outcome # "returned" THEN pq.tool_results
    ELSE CASE pq.stage = "analysis" ->
                Append(pq.tool_results, ToolResult("Comprehensive Repository Analysis", ct.result))
           [] pq.stage \in {"extra1", "extra2"} ->
                IF KeepAdditional(ct.result)
                THEN Append(pq.tool_results, ToolResult(ct.tool_name, ct.result))
                ELSE pq.tool_results
           [] OTHER -> Append(pq.tool_results, ToolResult(ct.tool_name, ct.result))

\* the stage that follows: "none" when the tool calls of the query are over
StageAfterCall ==
    CASE pq.stage = "analysis" ->
             IF ct.outcome # "returned"
             THEN (IF Len(pq.tools) >= 1 THEN "loop1" ELSE "none")
             ELSE IF AnalysisWorked(ct.result) THEN "extra1" ELSE "none"
      [] pq.stage = "extra1" -> "extra2"
      [] pq.stage = "loop1"  -> IF Len(pq.tools) >= 2 THEN "loop2" ELSE "none"
      [] OTHER -> "none"

\* the tool each stage calls
StageTool(stage) ==
    CASE stage = "extra1" -> "search_research_repository"
      [] stage = "extra2" -> "access_file"
      [] stage = "loop1"  -> pq.tools[1]
      [] stage = "loop2"  -> pq.tools[2]
      [] OTHER            -> "repository_analysis"

\* The index name the comprehensive analysis of this query read from the response of
\* its index call, if it read one.  The program keeps this name in a local variable of
\* the analysis only; pq.index_name records it for the properties.
IndexNameAfterCall ==
    IF /\ pq.stage = "analysis" /\ ca.index_created
       /\ NamesIndexPath(ca.results[1].content)
    THEN ca.repo_name
    ELSE pq.index_name

\* process_query resumes after a call_tool: it records the result and either issues the
\* next call_tool or goes on to the prompt
PqAfterCall ==
    /\ pc = "ct_done" /\ ct.caller = "pq"
    /\ LET next == StageAfterCall IN
       IF next = "none"
       THEN /\ pq' = [pq EXCEPT !.tool_results = ResultsAfterCall, !.stage = "none",
                                !.index_name = IndexNameAfterCall]
            /\ ct' = NoCt /\ ca' = NoCa
            /\ pc' = "pq_assemble"
       ELSE /\ pq' = [pq EXCEPT !.tool_results = ResultsAfterCall, !.stage = next,
                                !.tool_calls = @ + 1,
                                !.index_name = IndexNameAfterCall]
            /\ PqCallTool(StageTool(next), pq.repo_info)
    /\ UNCHANGED << driver, agentVars, mcpVars, ret, probe >>

\* a variant of the end of process_query that sends the request again when
\* invoke_model raises
PqAssembleRetrying ==
    /\ pc = "pq_assemble"
    /\ \E bedrock_ok \in BOOLEAN, retry_ok \in BOOLEAN :
         /\ pq' = [pq EXCEPT !.prompt = AssemblePrompt(pq.tool_results),
                             !.inference_calls = IF bedrock_ok THEN @ + 1 ELSE @ + 2]
         /\ ret' = [op |-> "process_query",
                    outcome |-> IF bedrock_ok \/ retry_ok THEN "returned" ELSE "BedrockError",
                    value |-> FALSE]
    /\ pc' = "done"
    /\ UNCHANGED << driver, agentVars, mcpVars, probe, ct, ca >>

\* the prompt is assembled and _call_bedrock issues the one inference call; an
\* exception of invoke_model is re-raised
PqAssemble ==
    /\ pc = "pq_assemble"
    /\ \E bedrock_ok \in BOOLEAN :
         /\ pq' = [pq EXCEPT !.prompt = AssemblePrompt(pq.tool_results),
                             !.inference_calls = @ + 1]
         /\ ret' = [op |-> "process_query",
                    outcome |-> IF bedrock_ok THEN "returned" ELSE "BedrockError",
                    value |-> FALSE]
    /\ pc' = "done"
    /\ UNCHANGED << driver, agentVars, mcpVars, probe, ct, ca >>

----------------------------------------------------------------------------
Init ==
    /\ driver \in {"agent", "integration"}
    /\ github_token \in (IF driver = "agent" THEN Tokens ELSE {NoToken})
    /\ bedrock_client = FALSE
    /\ mcp_integration = (driver = "integration")
    /\ initialized = FALSE
    /\ BEDROCK_MODEL_ID = DEFAULT_MODEL_ID
    /\ mcp_token \in (IF driver = "integration" THEN Tokens ELSE {NoToken})
    /\ tools_cache = None
    /\ connected = FALSE
    /\ mcp_available = FALSE
    /\ pc = "idle"
    /\ ret = NoRet /\ probe = NoProbe
    /\ ct = NoCt /\ ca = NoCa /\ pq = IdlePq

Next ==
    \/ SetupClient \/ ListTools \/ GetToolDescriptions \/ UpdateToken \/ Close \/ CallTool
    \/ CtImport \/ CtConnect \/ CtCall
    \/ CaIndex \/ CaSearch \/ CaFile \/ CaDone
    \/ CtReturn \/ Return
    \/ InitializeAgent \/ AgentUpdateToken \/ Cleanup \/ GetConnectionStatus
    \/ ProcessQuery \/ PqAfterCall \/ PqAssemble

Spec == Init /\ [][Next]_vars

\* Every awaited step of a live call is taken once it is due: the import, the session,
\* each tool call (which returns or raises) and the return of the analysis.
SpecLive ==
    /\ Spec
    /\ WF_vars(CtImport) /\ WF_vars(CtConnect) /\ WF_vars(CtCall)
    /\ WF_vars(CaIndex) /\ WF_vars(CaSearch) /\ WF_vars(CaFile) /\ WF_vars(CaDone)

----------------------------------------------------------------------------
(* _fallback_analysis called twice with the same arguments                 *)

\* a set-up integration, with or without token, with or without a live server
FbInit ==
    /\ driver = "integration"
    /\ github_token = NoToken /\ bedrock_client = FALSE /\ mcp_integration = TRUE
    /\ initialized = FALSE /\ BEDROCK_MODEL_ID = DEFAULT_MODEL_ID
    /\ mcp_token \in Tokens
    /\ mcp_available \in BOOLEAN
    /\ tools_cache = (IF mcp_available THEN LiveCatalog ELSE FallbackCatalog)
    /\ connected = TRUE
    /\ pc = "fb_idle"
    /\ ret = NoRet /\ probe = NoProbe
    /\ ct = NoCt /\ ca = NoCa /\ pq = IdlePq

\* a first _fallback_analysis(repo_url, repo_type, tool_name); ret keeps its arguments,
\* its text and whether the integration held a token
FallbackAnalysis ==
    /\ pc = "fb_idle"
    /\ \E url \in Urls, type \in Types, tool \in ToolNames :
         ret' = [op |-> "_fallback_analysis", outcome |-> "returned",
                 value |-> [repo_url |-> url, repo_type |-> type, tool_name |-> tool,
                            text |-> FallbackText(url, type, tool),
                            token_set |-> (mcp_token # NoToken)]]
    /\ pc' = "fb_first"
    /\ UNCHANGED << driver, agentVars, mcpVars, probe, ct, ca, pq >>

\* update_github_token between the two calls
FbUpdateToken ==
    /\ pc = "fb_first"
    /\ \E t \in Tokens : mcp_token' = t
    /\ pc' = "fb_updated"
    /\ UNCHANGED << driver, agentVars, tools_cache, connected, mcp_available, ret, probe,
                    ct, ca, pq >>

\* a second _fallback_analysis with the arguments of the first; ct keeps its text
FallbackAnalysisAgain ==
    /\ pc \in {"fb_first", "fb_updated"}
    /\ ct' = [NoCt EXCEPT !.caller = "direct",
                          !.tool_name = ret.value.tool_name,
                          !.repo_url = ret.value.repo_url,
                          !.repo_type = ret.value.repo_type,
                          !.outcome = "returned",
                          !.result = FallbackText(ret.value.repo_url, ret.value.repo_type,
                                                  ret.value.tool_name)]
    /\ pc' = "fb_second"
    /\ UNCHANGED << driver, agentVars, mcpVars, ret, probe, ca, pq >>

\* both texts have been compared
FbForget ==
    /\ pc = "fb_second"
    /\ pc' = "fb_idle"
    /\ ret' = NoRet /\ ct' = NoCt
    /\ UNCHANGED << driver, agentVars, mcpVars, probe, ca, pq >>

FbNext == FallbackAnalysis \/ FbUpdateToken \/ FallbackAnalysisAgain \/ FbForget

SpecFallback == FbInit /\ [][FbNext]_vars

----------------------------------------------------------------------------
(* Properties: access validation                                           *)

\* C1: on a set-up integration, a call_tool whose repository_type is private in any
\* letter case and whose token_available is false ends at once with the access-denied
\* ValueError, whatever the tool name and whether the server is available or not, and
\* it has launched no server, opened no session and issued no tool call.
C1_PrivateWithoutTokenDenied ==
    ( /\ ct.caller # "none"
      /\ connected
      /\ ct.repo_type \in {"private", "Private"}
      /\ ~ct.token_available )
    => /\ pc = "ct_done"
       /\ ct.outcome = "ValueError"
       /\ ~ct.live_path
       /\ ct.launches = 0 /\ ct.sessions = 0
       /\ ct.last_call = NoCall
       /\ ca = NoCa

\* C1 happens: a capitalised Private without token is denied while the server is live
C1_Witness ==
    /\ pc = "ct_done" /\ connected /\ mcp_available
    /\ ct.repo_type = "Private" /\ ~ct.token_available /\ ct.repo_url # NoUrl
    /\ ct.outcome = "ValueError"

\* C2 as stated: in every initialized session a query with a Repository line,
\* Type: Private and Token: no_token ends with the access-denied error, with no tool
\* call and no inference call before it.
C2_NoTokenFieldDenied ==
    ( /\ pq.active /\ initialized
      /\ pq.repo_info.has_repo
      /\ pq.repo_info.type = "Private"
      /\ pq.repo_info.token_status = "no_token" )
    => /\ pc = "done"
       /\ ret.outcome = "ValueError: GitHub token is required"
       /\ pq.tool_calls = 0 /\ pq.inference_calls = 0
       /\ ct.caller # "pq"

\* C2 amended: in every initialized session that holds no GitHub token, a query with
\* a Repository line and Type: Private (Token: no_token) ends with the access-denied
\* error, with no tool call and no inference call before it.
C2_NoSessionTokenDenied ==
    ( /\ pq.active /\ initialized
      /\ github_token = NoToken
      /\ pq.repo_info.has_repo
      /\ pq.repo_info.type = "Private"
      /\ pq.repo_info.token_status = "no_token" )
    => /\ pc = "done"
       /\ ret.outcome = "ValueError: GitHub token is required"
       /\ pq.tool_calls = 0 /\ pq.inference_calls = 0
       /\ ct.caller # "pq"

\* C2 happens: such a query has been rejected in a session without token
C2_Witness ==
    /\ pc = "done" /\ ret.op = "process_query" /\ initialized
    /\ github_token = NoToken
    /\ pq.repo_info.has_repo /\ pq.repo_info.url = PlainUrl
    /\ pq.repo_info.type = "Private" /\ pq.repo_info.token_status = "no_token"
    /\ ret.outcome = "ValueError: GitHub token is required"

----------------------------------------------------------------------------
(* Properties: the disclosure banner                                       *)

\* C3 as stated: when a gathered tool result carries content the live server returned
\* (the comprehensive analysis' result included), the assembled prompt has the
\* REAL DATA banner and not the GUIDANCE MODE banner.
C3_LiveResultLabelledReal ==
    ( /\ pq.inference_calls = 1
      /\ \E i \in 1..Len(pq.tool_results) : pq.tool_results[i].live )
    => /\ REAL_DATA \in pq.prompt.banners
       /\ GUIDANCE \notin pq.prompt.banners

\* C4 as stated: the assembled prompt has the REAL DATA banner only if a gathered
\* tool result carries content a live server tool call returned; results synthesized
\* by the fallback guidance never bring the banner about.
C4_RealBannerOnlyForLiveResult ==
    ( /\ pq.inference_calls = 1
      /\ REAL_DATA \in pq.prompt.banners )
    => \E i \in 1..Len(pq.tool_results) : pq.tool_results[i].live

\* C5: every prompt process_query assembles has exactly one of the three banners.
C5_ExactlyOneBanner ==
    pq.inference_calls = 1
    => /\ pq.prompt.banners \subseteq {REAL_DATA, GUIDANCE, GENERAL}
       /\ Cardinality(pq.prompt.banners) = 1

\* C5 happens: a prompt over several tool results, one of them with the real-data
\* phrase, has the REAL DATA banner alone
C5_Witness ==
    /\ pq.inference_calls = 1
    /\ Len(pq.tool_results) >= 2
    /\ HasRealData(pq.tool_results)
    /\ pq.prompt.banners = {REAL_DATA}

----------------------------------------------------------------------------
(* Properties: dispatch and recovery of call_tool                          *)

\* C6 as stated: once the access validation has passed, call_tool never raises, and
\* after any fault of the live path (the import, the session, a tool call, the calls
\* of the comprehensive analysis included) what it returns is the fallback guidance.
C6_EveryFaultGivesGuidance ==
    ( /\ pc = "ct_done" /\ connected
      /\ ~(ct.repo_type \in {"private", "Private"} /\ ~ct.token_available) )
    => /\ ct.outcome = "returned"
       /\ (ct.fault \/ ca.index_fault) => IsFallback(ct.result)

\* C6 amended: once the access validation has passed, call_tool never raises; a fault
\* caught by the live path's own handler (the import, starting the session, listing
\* the tools, the single tool call, leaving the session) gives the fallback guidance;
\* a raising index-build call inside the comprehensive analysis is caught by its own
\* stage, and unless leaving the session fails as well the analysis text is returned
\* with its first entry the "Repository Indexing: Failed" message, not the guidance.
C6_FaultsRecovered ==
    ( /\ pc = "ct_done" /\ connected
      /\ ~(ct.repo_type \in {"private", "Private"} /\ ~ct.token_available) )
    => /\ ct.outcome = "returned"
       /\ ct.fault => IsFallback(ct.result)
       /\ (ca.index_fault /\ ~ct.fault)
            => /\ ct.result.kind = "analysis"
               /\ Head(ct.result.parts) = IndexFailedPart
               /\ ~IsFallback(ct.result)

\* C6 happens: the index-build call raised and call_tool returned the analysis text
C6_Witness ==
    /\ pc = "ct_done" /\ ct.outcome = "returned"
    /\ ca.index_fault /\ ~ct.fault
    /\ ct.result.kind = "analysis"

\* C7: while the server is unavailable or the URL is empty, a call_tool on a set-up
\* integration never enters the live path: it launches no server, opens no session,
\* issues no tool call, and what it returns is the synthesized guidance (a private
\* request without token is refused instead, see C1); the live path is entered only
\* with an available server and a non-empty URL.
C7_FallbackDispatch ==
    /\ ( /\ ct.caller # "none" /\ connected
         /\ (~mcp_available \/ ct.repo_url = NoUrl) )
       => /\ pc = "ct_done"
          /\ ~ct.live_path
          /\ ct.launches = 0 /\ ct.sessions = 0
          /\ ct.last_call = NoCall /\ ca = NoCa
          /\ ct.outcome \in {"returned", "ValueError"}
          /\ ct.outcome = "returned" => IsFallback(ct.result)
    /\ ct.live_path => (mcp_available /\ ct.repo_url # NoUrl)

\* C7 happens: with a live server and an empty URL call_tool returned the guidance
C7_Witness ==
    /\ pc = "ct_done" /\ connected /\ mcp_available
    /\ ct.repo_url = NoUrl
    /\ ct.outcome = "returned" /\ IsFallback(ct.result)

----------------------------------------------------------------------------
(* Properties: the comprehensive analysis                                  *)

\* C8 as stated: when the index-build call raised or gave no content, the analysis
\* issues no search call and still goes through every well-known file.
C8_FilesAlwaysTried ==
    (ca.index_calls = 1 /\ ~ca.index_created)
    => /\ ~ca.search_issued /\ pc # "ca_search"
       /\ ca.final # NoText => ca.files_done = Len(KeyFiles)

\* C8 amended: when the index-build call raised or gave no content, the analysis
\* issues no search call; it goes through every well-known file if the server's tool
\* list has access_file, and issues no file call at all if it has not.
C8_FilesTriedWhenOffered ==
    (ca.index_calls = 1 /\ ~ca.index_created)
    => /\ ~ca.search_issued /\ pc # "ca_search"
       /\ "access_file" \notin ct.available_tools
            => (ca.files_done = 0 /\ pc # "ca_file")
       /\ (ca.final # NoText /\ "access_file" \in ct.available_tools)
            => ca.files_done = Len(KeyFiles)

\* C8 happens: the index-build call raised, and the analysis ended after all five files
C8_Witness ==
    /\ ca.index_calls = 1 /\ ca.index_fault
    /\ "search_research_repository" \in ct.available_tools
    /\ ca.final # NoText
    /\ ~ca.search_issued /\ ca.files_done = Len(KeyFiles)

\* C9: every search call of the analysis takes the next address variant of the
\* current query in the order index name, index name with _git, last URL segment,
\* last URL segment without .git; a response with content and without the zero-match
\* and error markers is recorded for the query and ends the query; any other
\* response records nothing and leads to the next variant, or past the query once
\* the fourth variant has been tried.
C9_SearchVariantsInOrder ==
    [][ pc = "ca_search" =>
          LET c     == ca'.last_call
              v     == ca.attempt + 1
              order == << ca.repo_name,
                          [ca.repo_name EXCEPT !.ugit = TRUE],
                          LastSegment(ct.repo_url),
                          [LastSegment(ct.repo_url) EXCEPT !.dotgit = FALSE] >>
              qualifies == /\ c.response \notin {RAISE, NO_CONTENT}
                           /\ ~ContentHas(c.response, M_ZERO)
                           /\ ~ContentHas(c.response, M_ERR_SEARCH)
              same_query == pc' = "ca_search" /\ ca'.item = ca.item
          IN
          /\ c.tool = "search_research_repository"
          /\ c.item = ca.item /\ c.variant = v
          /\ c.address = order[v]
          /\ qualifies => /\ ca'.results =
                               Append(ca.results, SearchPart(SearchQueries[ca.item], c.response))
                          /\ ~same_query
          /\ ~qualifies => /\ ca'.results = ca.results
                           /\ IF v < 4 THEN same_query /\ ca'.attempt = v
                              ELSE ~same_query
          /\ ~same_query => ca'.attempt = 0
      ]_vars

\* C9 happens: the first variant of the second query failed, the second variant's
\* response was recorded and the analysis went on to the third query
C9_Witness ==
    /\ pc = "ca_search"
    /\ ca.last_call.tool = "search_research_repository"
    /\ ca.last_call.item = 2 /\ ca.last_call.variant = 2
    /\ ca.last_call.response = SEARCH_HITS
    /\ ca.results[Len(ca.results)] = SearchPart(SearchQueries[2], SEARCH_HITS)
    /\ ca.item = 3 /\ ca.attempt = 0

\* C10 as stated: after an index-build response naming index_path, every search call
\* and every file call of the analysis is addressed by the name taken from
\* index_path, none by the name derived from the URL.
C10_IndexNameEverywhere ==
    ( /\ ca.results # << >>
      /\ Head(ca.results).label = "index" /\ Head(ca.results).content = INDEX_JSON
      /\ ca.last_call.tool \in {"search_research_repository", "access_file"} )
    => LET root == IF ca.last_call.tool = "access_file"
                   THEN ca.last_call.address.root ELSE ca.last_call.address
       IN /\ root.stem = "b_idx"
          /\ root.stem # LastSegment(ct.repo_url).stem

\* C10 amended: after an index-build response naming index_path, every file call and
\* the first two address variants of every search query are built from the name
\* taken from index_path (bare first, then with _git), and never from the URL; the
\* third and fourth search variants, tried once the first two have failed, are the
\* last URL segment and the URL-derived repository name.
C10_IndexNameFirst ==
    ( /\ ca.results # << >>
      /\ Head(ca.results).label = "index" /\ Head(ca.results).content = INDEX_JSON
      /\ ca.last_call.tool \in {"search_research_repository", "access_file"} )
    => LET c    == ca.last_call
           idx  == [stem |-> "b_idx", dotgit |-> FALSE, ugit |-> FALSE]
           last == LastSegment(ct.repo_url)
       IN IF c.tool = "access_file"
          THEN /\ c.address.root.stem = "b_idx"
               /\ c.address.root.stem # last.stem
          ELSE /\ c.variant = 1 => c.address = idx
               /\ c.variant = 2 => c.address = [idx EXCEPT !.ugit = TRUE]
               /\ c.variant = 3 => c.address = last
               /\ c.variant = 4 => c.address = [last EXCEPT !.dotgit = FALSE]

\* C10 happens: after index_path named the index, a file call went to b_idx
C10_Witness ==
    /\ ca.results # << >>
    /\ Head(ca.results).content = INDEX_JSON
    /\ ca.last_call.tool = "access_file"
    /\ ca.last_call.address.root = [stem |-> "b_idx", dotgit |-> FALSE, ugit |-> FALSE]
    /\ ct.repo_url = PlainUrl

----------------------------------------------------------------------------
(* Properties: setup_client, the probe and the catalog                     *)

\* C11: when the runner check fails (uvx missing, or exiting with an error), setup
\* starts no server process, the verdict is unavailable and the catalog, which is what
\* list_tools returns, is exactly the two guidance tools.
C11_NoRunnerNoLaunch ==
    /\ probe.uvx \in {"nonzero", "missing"}
       => /\ ~probe.launched /\ probe.outcome = "not_run"
          /\ connected /\ ~mcp_available
          /\ tools_cache = << "basic_repository_info", "repository_guidance" >>
    /\ (ret.op = "list_tools" /\ ret.outcome = "returned" /\ ~mcp_available)
       => ret.value = << "basic_repository_info", "repository_guidance" >>

\* C11 happens: the runner exited with an error and setup_client has returned
C11_Witness ==
    /\ pc = "done" /\ ret.op = "setup_client"
    /\ probe.uvx = "nonzero" /\ ~probe.launched
    /\ tools_cache = FallbackCatalog

\* C12: whenever the integration is connected the catalog is the live tool set if the
\* server is available and the two guidance tools if it is not, and that catalog is
\* what list_tools returns.
C12_CatalogFollowsVerdict ==
    /\ connected => tools_cache = (IF mcp_available THEN LiveCatalog ELSE FallbackCatalog)
    /\ (ret.op = "list_tools" /\ ret.outcome = "returned")
       => /\ connected
          /\ ret.value = (IF mcp_available THEN LiveCatalog ELSE FallbackCatalog)
          /\ Len(ret.value) = (IF mcp_available THEN 5 ELSE 2)

\* C12 happens: list_tools returned the guidance set on an integration that had been
\* given a token
C12_Witness ==
    /\ pc = "done" /\ ret.op = "list_tools" /\ ret.outcome = "returned"
    /\ driver = "integration" /\ mcp_token = SomeToken
    /\ ~mcp_available /\ ret.value = FallbackCatalog

\* C13 as stated: the probe finds the server available exactly when the launched
\* process exits with status 0 within the timeout or is still running at the timeout.
C13_AvailableIffCleanOrRunning ==
    probe.outcome \notin {"none", "not_run"}
    => (mcp_available <=> probe.outcome \in {"exit_0", "timeout"})

\* C13 amended: the probe finds the server available exactly when the launched process
\* exits with status 0 within the timeout, exits with another status while its error
\* output mentions "MCP server", or is still running at the timeout; any other unclean
\* exit and any exception while launching or waiting give unavailable.
C13_AvailableIffCleanBannerOrRunning ==
    probe.outcome \notin {"none", "not_run"}
    => /\ mcp_available <=> probe.outcome \in {"exit_0", "exit_error_banner", "timeout"}
       /\ probe.outcome \in {"exit_error", "launch_exception", "communicate_exception"}
            => (~mcp_available /\ tools_cache = FallbackCatalog)

\* C13 happens: the process exited with an error mentioning "MCP server" and the
\* verdict is available
C13_Witness ==
    /\ pc = "done" /\ probe.launched
    /\ probe.outcome = "exit_error_banner"
    /\ mcp_available /\ tools_cache = LiveCatalog

\* C14 as stated: a server process still running at the timeout is killed, and
\* whichever way the probe ends no process it started is running when it returns.
C14_NoProbeProcessLeft ==
    /\ probe.outcome = "timeout" => probe.killed
    /\ probe.launched => ~probe.running

C16_SetupAlwaysConnects ==
    (pc = "done" /\ ret.op = "setup_client")
    => /\ ret.outcome = "returned" /\ ret.value = TRUE
       /\ connected
       /\ tools_cache # << >>
       /\ ( \/ probe.uvx \in {"nonzero", "missing"}
            \/ probe.outcome \in {"launch_exception", "exit_error", "communicate_exception"} )
          => (~mcp_available /\ tools_cache = FallbackCatalog)

\* C16 happens: the server process could not be started and setup_client returned True
C16_Witness ==
    /\ pc = "done" /\ ret.op = "setup_client" /\ ret.value = TRUE
    /\ probe.outcome = "launch_exception"
    /\ connected /\ ~mcp_available

----------------------------------------------------------------------------
(* Properties: model resolution and initialize_agent                       *)

\* C17: the test calls of an initialize_agent follow the candidate list (the one
\* identifier amazon.nova-pro-v1:0) in order; when a test call succeeds its identifier
\* is stored as the configured model identifier and it is the last one called.
C17_FirstSuccessPinned ==
    ret.op = "initialize_agent"
    => LET calls == ret.value.model_calls
           tests == ret.value.tests IN
       /\ calls \in { << >>, << "amazon.nova-pro-v1:0" >> }
       /\ Len(tests) = Len(calls)
       /\ \A i \in 1..Len(tests) :
            tests[i] = "ok" => (i = Len(calls) /\ BEDROCK_MODEL_ID = calls[i])
       /\ ret.outcome = "returned" => (calls # << >> /\ tests[Len(tests)] = "ok")

\* C17 happens: a first initialize_agent tested the identifier and pinned it
C17_Witness ==
    /\ pc = "done" /\ ret.op = "initialize_agent" /\ ret.outcome = "returned"
    /\ ~ret.value.pinned_before
    /\ ret.value.model_calls = << NOVA_MODEL_ID >>
    /\ BEDROCK_MODEL_ID = NOVA_MODEL_ID

\* C18 as stated: resolution fails exactly when every candidate's test call failed,
\* and the text of the raised error names every identifier that was tested.
C18_FailureListsIdentifiers ==
    (ret.op = "initialize_agent" /\ ret.outcome # "ClientError")
    => LET v == ret.value IN
       /\ ret.outcome = "ModelError" <=> (\A i \in 1..Len(v.tests) : v.tests[i] # "ok")
       /\ ret.outcome = "ModelError"
            => \A i \in 1..Len(v.model_calls) : DetailNames(v.detail, v.model_calls[i])

\* C18 amended: resolution fails exactly when the test call of its one candidate
\* failed; the raised text is "Could not access Nova Pro model. Error: " followed by
\* the text of the underlying error, so it names the tested identifier only when the
\* underlying error does.
C18_FailureCarriesErrorText ==
    (ret.op = "initialize_agent" /\ ret.outcome # "ClientError")
    => LET v == ret.value IN
       /\ Len(v.tests) = 1
       /\ ret.outcome = "ModelError" <=> (\A i \in 1..Len(v.tests) : v.tests[i] # "ok")
       /\ ret.outcome = "ModelError"
            => /\ v.detail.message = "Could not access Nova Pro model. Error: "
               /\ v.detail.error = v.tests[1]
               /\ DetailNames(v.detail, "amazon.nova-pro-v1:0")
                    <=> v.tests[1] = "error_naming_model"

\* C18 happens: the test call failed with an error that does not name the model
C18_Witness ==
    /\ pc = "done" /\ ret.op = "initialize_agent" /\ ret.outcome = "ModelError"
    /\ ret.value.tests = << "error" >>
    /\ ~DetailNames(ret.value.detail, NOVA_MODEL_ID)

\* C19 as stated: after an initialize_agent that failed in model resolution, no runner
\* check or probe was started by that call and the agent is not initialized.
C19_FailedResolutionNotInitialized ==
    (pc = "done" /\ ret.op = "initialize_agent" /\ ret.outcome = "ModelError")
    => /\ probe = NoProbe
       /\ ~initialized
       /\ ~is_initialized

\* C20 as stated: an initialize_agent called while the identifier is already pinned
\* issues no test call and leaves the pin as it is.
C20_PinnedNotRetested ==
    (ret.op = "initialize_agent" /\ ret.value.pinned_before)
    => /\ ret.value.model_calls = << >>
       /\ BEDROCK_MODEL_ID = NOVA_MODEL_ID

\* C20 amended: an initialize_agent called while the identifier is already pinned
\* tests the identifier again with one call whenever the client is created (and
\* raises if that call fails); the pin is the same identifier afterwards in every
\* case.
C20_PinnedRetestedPinKept ==
    (ret.op = "initialize_agent" /\ ret.value.pinned_before)
    => /\ BEDROCK_MODEL_ID = NOVA_MODEL_ID
       /\ ret.outcome = "ClientError" => ret.value.model_calls = << >>
       /\ ret.outcome # "ClientError"
            => /\ ret.value.model_calls = << NOVA_MODEL_ID >>
               /\ ret.outcome = "ModelError" <=> ret.value.tests[1] # "ok"

\* C20 happens: with the identifier pinned, a repeated initialize_agent tested it
\* again, the test failed, and the pin is still there
C20_Witness ==
    /\ pc = "done" /\ ret.op = "initialize_agent" /\ ret.outcome = "ModelError"
    /\ ret.value.pinned_before
    /\ ret.value.model_calls = << NOVA_MODEL_ID >>
    /\ BEDROCK_MODEL_ID = NOVA_MODEL_ID

----------------------------------------------------------------------------
(* Properties: the fallback guidance                                       *)

\* C21 as stated: two _fallback_analysis calls with the same URL, type and tool name
\* give the same text, whatever the session state of either call.
C21_SameArgumentsSameText ==
    pc = "fb_second" => ct.result = ret.value.text

\* C21 amended: the text of _fallback_analysis depends on its three arguments and,
\* in the private template, on whether the integration holds a token when it is
\* called (the Token Status line): two calls with the same arguments give the same
\* text in any two session states that agree on the presence of a token, and the
\* general and public templates give the same text in all session states; the call
\* starts no process and opens no session.
C21_SameArgumentsAndTokenSameText ==
    pc = "fb_second"
    => /\ (ret.value.token_set <=> mcp_token # NoToken) => ct.result = ret.value.text
       /\ ct.result.kind \in {"fallback_general", "fallback_public"}
            => ct.result = ret.value.text
       /\ ct.result.kind = "fallback_private"
            => /\ ct.result.token_configured = (mcp_token # NoToken)
               /\ ret.value.text.token_configured = ret.value.token_set
       /\ ct.launches = 0 /\ ct.sessions = 0 /\ probe = NoProbe

\* C21 happens: the token was set between two calls for a public repository, and
\* the two texts are the same
C21_Witness ==
    /\ pc = "fb_second"
    /\ ~ret.value.token_set /\ mcp_token = SomeToken
    /\ ct.result.kind = "fallback_public"
    /\ ct.result = ret.value.text

----------------------------------------------------------------------------
(* Properties: process_query                                               *)

\* C22: on an initialized session process_query raises only the two errors of the
\* access validation (before any tool call and any inference call) or the error of the
\* inference call; a tool call that failed or raised leaves the query running; when
\* the validation lets the query through, exactly one inference call is issued, and
\* only when no tool call of the query is left.
C22_QueryFailsOnValidationOrInference ==
    /\ (pc = "done" /\ ret.op = "process_query" /\ initialized)
       => /\ ret.outcome \in {"returned", "BedrockError",
                              "ValueError: GitHub token is required",
                              "ValueError: Unable to access repository"}
          /\ ret.outcome \notin {"returned", "BedrockError"}
               => /\ pq.repo_info.has_repo /\ ~can_access_repository(pq.repo_info.type)
                  /\ pq.tool_calls = 0 /\ pq.inference_calls = 0
          /\ ret.outcome \in {"returned", "BedrockError"}
               => /\ pq.repo_info.has_repo => can_access_repository(pq.repo_info.type)
                  /\ pq.inference_calls = 1
                  /\ pq.stage = "none" /\ ct = NoCt /\ ca = NoCa
    /\ (pq.active /\ pc # "done") => pq.inference_calls = 0
    /\ (pc = "ct_done" /\ ct.caller = "pq" /\ (ct.fault \/ ct.outcome # "returned"))
       => /\ pq.active /\ pq.inference_calls = 0
          /\ ret = NoRet

\* C22 happens: the query of a repository was answered after three tool calls and one
\* inference call
C22_Witness ==
    /\ pc = "done" /\ ret.op = "process_query" /\ ret.outcome = "returned"
    /\ initialized
    /\ pq.tool_calls = 3 /\ pq.inference_calls = 1

\* C23: a query none of whose lines starts with a field label is parsed as no
\* repository context with the public type; process_query dispatches no tool for it,
\* and the prompt it sends has the general banner alone and no section of tool results.
C23_BareQuestionIsGeneral ==
    /\ parse_repository_info(<< QuestionLine >>) = DefaultRepoInfo
    /\ (pq.active /\ initialized /\ \A i \in DOMAIN pq.query : pq.query[i].label = "text")
       => /\ pq.query # << >>
          /\ ~pq.repo_info.has_repo /\ pq.repo_info.type = "public"
          /\ pq.tool_calls = 0 /\ pq.tool_results = << >> /\ ct = NoCt /\ ca = NoCa
          /\ pc \in {"pq_assemble", "done"}
          /\ pc = "done"
               => /\ ret.outcome \in {"returned", "BedrockError"}
                  /\ pq.inference_calls = 1
                  /\ pq.prompt = [banners |-> {GENERAL}, results_section |-> FALSE]

\* C23 happens: a bare question was answered
C23_Witness ==
    /\ pc = "done" /\ ret.op = "process_query" /\ ret.outcome = "returned"
    /\ pq.query = << QuestionLine >>
    /\ pq.prompt.banners = {GENERAL} /\ ~pq.prompt.results_section

\* C24 as stated: a query without a Repository line that has a URL is parsed with the
\* public type, whatever its other lines, and no tool is dispatched for it.
C24_NoRepositoryMeansPublic ==
    (pq.active /\ initialized
       /\ \A i \in DOMAIN pq.query :
            pq.query[i].label = "Repository" => pq.query[i].value = NoUrl)
    => /\ pq.repo_info.type = "public"
       /\ pq.tool_calls = 0 /\ ct = NoCt

\* C24 amended: a query without a Repository line that has a URL is parsed as no
\* repository context; its access type is the value of its last Type line, and public
\* only when it has none; no tool is dispatched for it and the access validation
\* rejects nothing; the lines without a field label do not change what is parsed.
C24_NoRepositoryMeansNoContext ==
    (pq.active /\ initialized
       /\ \A i \in DOMAIN pq.query :
            pq.query[i].label = "Repository" => pq.query[i].value = NoUrl)
    => LET typeLines == {i \in DOMAIN pq.query : pq.query[i].label = "Type"}
           last == CHOOSE i \in typeLines : \A j \in typeLines : j <= i
           labelled(line) == line.label # "text"
       IN  /\ ~pq.repo_info.has_repo
           /\ pq.repo_info.type = (IF typeLines = {} THEN "public"
                                   ELSE pq.query[last].value)
           /\ pq.tool_calls = 0 /\ pq.tool_results = << >> /\ ct = NoCt
           /\ pc = "done" => ret.outcome \in {"returned", "BedrockError"}
           /\ pq.repo_info = parse_repository_info(pq.query)
           /\ pq.repo_info = parse_repository_info(SelectSeq(pq.query, labelled))

\* C24 happens: a query with the line "Type: Private" and no Repository line was
\* answered without a tool call, its parsed type being Private
C24_Witness ==
    /\ pc = "done" /\ ret.op = "process_query" /\ ret.outcome = "returned"
    /\ \E i \in DOMAIN pq.query : pq.query[i] = Line("Type", "Private")
    /\ \A i \in DOMAIN pq.query : pq.query[i].label # "Repository"
    /\ pq.repo_info.type = "Private" /\ ~pq.repo_info.has_repo
    /\ pq.tool_calls = 0

----------------------------------------------------------------------------
(* Properties: the stages of the comprehensive analysis                    *)

\* C25: in one analysis each tool call is issued by one stage step and has its
\* response when the step ends; the index call is the first call and is issued once;
\* a search call is issued only after the index call has returned, and before any
\* file call; a file call is issued after a search call only when the last variant of
\* the last query has been answered; after a file call only file calls are issued.
C25_StagesInSequence ==
    [][ LET c == ca'.last_call
            l == ca.last_call
        IN  (c # l /\ c # NoCall)
            => /\ pc \in {"ca_index", "ca_search", "ca_file"}
               /\ c.response \in IndexResponses \cup SearchResponses \cup FileResponses
               /\ c.tool = "create_research_repository"
                    => /\ pc = "ca_index" /\ l = NoCall /\ ca.index_calls = 0
               /\ c.tool = "search_research_repository"
                    => /\ pc = "ca_search"
                       /\ ca.index_calls = 1
                       /\ l.tool \in {"create_research_repository",
                                      "search_research_repository"}
                       /\ ca.files_done = 0
               /\ c.tool = "access_file"
                    => /\ pc = "ca_file"
                       /\ l.tool = "search_research_repository"
                            => /\ l.item = Len(SearchQueries)
                               /\ SearchAccepts(l.response) \/ l.variant = 4
               /\ l.tool = "access_file" => c.tool = "access_file"
      ]_vars

\* C25 happens: the first file call of an analysis that built the index and searched
C25_Witness ==
    /\ pc = "ca_file"
    /\ ca.index_calls = 1 /\ ca.search_issued
    /\ ca.last_call.tool = "access_file" /\ ca.last_call.item = 1 /\ ca.last_call.variant = 1

\* C26: an analysis that has started returns text, whatever its tool calls raise or
\* return: only its last step ends it, a stage whose call failed being followed by the
\* next stage; it issues at most one index call, at most four search calls for each of
\* the three queries and at most four file calls for each of the five files, each call
\* moving on to the next variant or to the next item.
C26_AnalysisReachesDone ==
    /\ [](/\ ca.index_calls <= 1
          /\ pc = "ca_search" => ca.item \in 1..3 /\ ca.attempt \in 0..3
          /\ pc = "ca_file"   => ca.item \in 1..5 /\ ca.attempt \in 0..3
          /\ ca.last_call # NoCall => ca.last_call.variant \in 1..4
          /\ ca.files_done <= 5)
    /\ [][ /\ (pc \in {"ca_index", "ca_search", "ca_file"} /\ pc' \notin {"ca_index", "ca_search", "ca_file"})
              => pc' = "ca_done"
           /\ (pc = "ca_index" /\ ca'.index_fault) => pc' \in {"ca_file", "ca_done"}
           /\ (pc = pc' /\ pc \in {"ca_search", "ca_file"})
              => \/ ca'.item = ca.item /\ ca'.attempt = ca.attempt + 1
                 \/ ca'.item = ca.item + 1 /\ ca'.attempt = 0
           /\ (pc = "ca_done" /\ pc' # pc)
              => pc' = "ct_done" /\ ct'.outcome = "returned" /\ ca'.final # NoText
         ]_vars
    /\ (pc \in {"ca_index", "ca_search", "ca_file", "ca_done"})
         ~> (pc = "ct_done" /\ ct.outcome = "returned" /\ ct.result # NoText
               /\ ca.final # NoText)

\* C26 happens: the index call raised, every file was tried, and the analysis returned
\* its text
C26_Witness ==
    /\ pc = "ct_done" /\ ct.outcome = "returned"
    /\ ca.index_fault /\ ca.files_done = 5
    /\ ca.final # NoText /\ ct.result = ca.final

----------------------------------------------------------------------------
(* Properties: cleanup                                                     *)

\* C27 as stated: after close() the integration is not connected, has no catalog and
\* its availability verdict is "not available"; after cleanup the agent is not
\* initialized, has no inference client and no integration, and the integration it
\* closed is not connected and has no catalog.
C27_CloseResetsVerdict ==
    /\ (pc = "done" /\ ret.op = "close")
       => ~connected /\ tools_cache = None /\ ~mcp_available
    /\ (pc = "done" /\ ret.op = "cleanup")
       => /\ ~initialized /\ ~bedrock_client /\ ~mcp_integration
          /\ ~connected /\ tools_cache = None

\* C28: the configured model identifier changes only in initialize_agent, when the
\* test call of the resolution succeeds, and then becomes the tested identifier;
\* cleanup, in particular, leaves it as it is.
C28_OnlyResolutionWritesModelId ==
    [][ /\ BEDROCK_MODEL_ID' # BEDROCK_MODEL_ID
           => /\ pc = "idle" /\ ret'.op = "initialize_agent"
              /\ ret'.value.tests = << "ok" >>
              /\ BEDROCK_MODEL_ID' = NOVA_MODEL_ID
        /\ (pc = "idle" /\ ret'.op = "cleanup")
           => BEDROCK_MODEL_ID' = BEDROCK_MODEL_ID
      ]_vars

\* C28 happens: cleanup has run on an agent whose resolution had pinned the identifier
C28_Witness ==
    /\ pc = "done" /\ ret.op = "cleanup"
    /\ ~initialized /\ ~mcp_integration
    /\ BEDROCK_MODEL_ID = NOVA_MODEL_ID

----------------------------------------------------------------------------
(* Properties: the environment of the server process, and single tool calls *)

\* C29 as stated: the probe and every live call set GITHUB_TOKEN in the environment of
\* the server process to the token when one is supplied, and do not set it otherwise.
C29_TokenVariableSetOnlyWithToken ==
    /\ (probe.uvx_checked /\ probe.outcome # "not_run")
       => probe.env_token = (IF mcp_token # NoToken THEN mcp_token ELSE UNSET)
    /\ ct.launches = 1
       => ct.env_token = (IF ct.token_available /\ mcp_token # NoToken THEN mcp_token
                          ELSE UNSET)

\* C29 amended: the probe sets GITHUB_TOKEN to the integration's token when it has
\* one and does not set it otherwise; a live call always sets it: to the integration's
\* token when the call says a token is available and the integration has one, and to
\* the empty string otherwise.
C29_TokenVariableEmptyWithoutToken ==
    /\ (probe.uvx_checked /\ probe.outcome # "not_run")
       => probe.env_token = (IF mcp_token # NoToken THEN mcp_token ELSE UNSET)
    /\ ct.launches = 1
       => /\ ct.env_token # UNSET
          /\ ct.env_token = (IF ct.token_available /\ mcp_token # NoToken THEN mcp_token
                             ELSE "")

\* C29 happens: the integration has a token, the call says none is available, and the
\* server process was started with an empty GITHUB_TOKEN
C29_Witness ==
    /\ ct.launches = 1
    /\ ~ct.token_available /\ mcp_token = SomeToken
    /\ ct.env_token = ""

\* C30: on a set-up integration a call_tool with a URL, a public type in any letter
\* case and a tool other than repository_analysis returns, and its text has the real
\* data marker or is the public guidance with its manual steps, with or without a
\* token and for tool names the catalog and the server do not know.
C30_PublicSingleCallReturnsText ==
    (pc = "ct_done" /\ connected
       /\ ct.repo_url # NoUrl /\ Lower(ct.repo_type) = "public"
       /\ ct.tool_name # "repository_analysis")
    => /\ ct.outcome = "returned"
       /\ \/ Contains(ct.result, M_REAL)
          \/ /\ ct.result = FallbackText(ct.repo_url, "public", ct.tool_name)
             /\ ct.result.kind = "fallback_public"
             /\ Contains(ct.result, M_MANUAL)

\* C30 happens: the live server answered a call of a tool it knows with blank text,
\* and the call returned the public guidance
C30_Witness ==
    /\ pc = "ct_done" /\ ct.outcome = "returned"
    /\ ct.repo_url = PlainUrl /\ ct.repo_type = "Public"
    /\ ct.tool_name = "access_file" /\ ct.sessions = 1
    /\ ct.last_call # NoCall /\ ct.last_call.response = BLANK
    /\ ct.result.kind = "fallback_public" /\ Contains(ct.result, M_MANUAL)

----------------------------------------------------------------------------
(* Properties: the file stage and the text of the analysis                 *)

\* C31: every file call of the analysis takes the next path variant of the current
\* file in the order name/repository/file, name_git/repository/file, name/file,
\* name_git/file; the first response with content and without the error and not-found
\* markers is recorded for the file and ends the file, no later variant being tried;
\* any other response records nothing; every file entry of the results shows at most
\* the first 500 characters of the response it was taken from.
C31_FirstCleanFileVariantAccepted ==
    /\ [](\A i \in 1..Len(ca.results) :
            ca.results[i].label = "file"
            => /\ ca.results[i].shown <= 500
               /\ ca.results[i].shown <= ContentLen(ca.results[i].content)
               /\ ca.results[i].content \notin {RAISE, NO_CONTENT})
    /\ [][ pc = "ca_file" =>
             LET c     == ca'.last_call
                 v     == ca.attempt + 1
                 file  == KeyFiles[ca.item]
                 order == << [root |-> ca.repo_name, repository |-> TRUE, file |-> file],
                             [root |-> [ca.repo_name EXCEPT !.ugit = TRUE],
                              repository |-> TRUE, file |-> file],
                             [root |-> ca.repo_name, repository |-> FALSE, file |-> file],
                             [root |-> [ca.repo_name EXCEPT !.ugit = TRUE],
                              repository |-> FALSE, file |-> file] >>
                 clean == /\ c.response \notin {RAISE, NO_CONTENT}
                          /\ c.response \notin {FILE_STATUS_ERR, FILE_NOT_FOUND}
                 same_file == pc' = "ca_file" /\ ca'.item = ca.item
             IN
             /\ c.tool = "access_file"
             /\ c.item = ca.item /\ c.variant = v
             /\ c.address = order[v]
             /\ clean => /\ Len(ca'.results) = Len(ca.results) + 1
                         /\ SubSeq(ca'.results, 1, Len(ca.results)) = ca.results
                         /\ LET e == ca'.results[Len(ca'.results)] IN
                            /\ e.label = "file" /\ e.item = file /\ e.content = c.response
                            /\ e.shown = Min(ContentLen(c.response), 500)
                         /\ ~same_file
             /\ ~clean => /\ ca'.results = ca.results
                          /\ IF v < 4 THEN same_file /\ ca'.attempt = v
                             ELSE ~same_file
             /\ ~same_file => ca'.attempt = 0 /\ ca'.files_done = ca.files_done + 1
         ]_vars

\* C31 happens: the first path of the second file gave a not-found text, the second
\* path gave a file of 800 characters, and its first 500 were recorded
C31_Witness ==
    /\ pc = "ca_file" /\ ca.item = 3 /\ ca.attempt = 0
    /\ ca.last_call.tool = "access_file" /\ ca.last_call.item = 2
    /\ ca.last_call.variant = 2 /\ ca.last_call.response = FILE_TEXT
    /\ ca.results # << >>
    /\ ca.results[Len(ca.results)].item = KeyFiles[2]
    /\ ca.results[Len(ca.results)].shown = 500

\* C32 as stated: the text the analysis returns is the collected entries joined in
\* stage order, and it is the explanatory sentence if and only if no stage produced
\* any content.
C32_SentenceIffNoContent ==
    (pc = "ct_done" /\ ca.final # NoText)
    => /\ ca.final.kind = "analysis" => ca.final.parts = ca.results
       /\ ca.final.kind = "no_results"
          <=> \A i \in 1..Len(ca.results) :
                 ca.results[i].label \notin {"index", "search", "file"}

\* C32 amended: the text the analysis returns is the entries of its results list
\* joined in the order they were collected, which is the stage order: at most one
\* indexing entry, first, then the search entries in query order, then the file
\* entries in list order, at most one for each query and file; it is the explanatory
\* sentence if and only if the list is empty, that is when no stage produced content
\* and the index call did not raise; when the index call raised, the first entry is
\* its failure message, even if nothing else was collected.
C32_SentenceIffNoEntry ==
    (pc = "ct_done" /\ ca.final # NoText)
    => LET rank(e) == CASE e.label \in {"index", "index_failed"} -> 0
                        [] e.label = "search" ->
                             CHOOSE k \in 1..3 : SearchQueries[k] = e.item
                        [] OTHER ->
                             3 + (CHOOSE k \in 1..5 : KeyFiles[k] = e.item)
       IN
       /\ ca.final = (IF ca.results = << >> THEN NoResultsText(ct.repo_url)
                      ELSE [kind |-> "analysis", parts |-> ca.results])
       /\ ca.final.kind = "analysis"
            => \A i, j \in 1..Len(ca.final.parts) :
                  i < j => rank(ca.final.parts[i]) < rank(ca.final.parts[j])
       /\ ca.final.kind = "no_results"
            <=> /\ \A i \in 1..Len(ca.results) :
                      ca.results[i].label \notin {"index", "search", "file"}
                /\ ~ca.index_fault
       /\ ca.index_fault => ca.results[1] = IndexFailedPart

\* C32 happens: the analysis returned an indexing entry, a search entry and a file
\* entry, in that order
C32_Witness ==
    /\ pc = "ct_done" /\ ca.final.kind = "analysis"
    /\ Len(ca.final.parts) = 3
    /\ ca.final.parts[1].label = "index"
    /\ ca.final.parts[2].label = "search"
    /\ ca.final.parts[3].label = "file"

----------------------------------------------------------------------------
(* Properties: the additional calls of process_query                       *)

\* C33 as stated: process_query goes on from the comprehensive analysis to the
\* additional search_research_repository and access_file calls only when the index
\* call of that analysis returned content; after an index call that failed, no
\* additional call is made.
C33_AdditionalCallsOnlyAfterIndexBuilt ==
    [][ (pq.stage = "analysis" /\ pq'.stage = "extra1")
        => (ca.index_calls = 1 /\ ca.index_created /\ ~ca.index_fault)
      ]_vars

\* C34 as stated: when the comprehensive analysis of a query has read the name of the
\* index from the response of its index call, the additional
\* search_research_repository and access_file calls of the same query address the
\* index by that name.
C34_AdditionalCallsUseIndexName ==
    (/\ pc = "ct_done" /\ ct.caller = "pq"
     /\ pq.stage \in {"extra1", "extra2"}
     /\ pq.index_name # Name("", FALSE, FALSE)
     /\ ct.last_call # NoCall)
    => /\ ct.tool_name = "search_research_repository"
            => ct.last_call.args.index_path = pq.index_name
       /\ ct.tool_name = "access_file"
            => ct.last_call.args.filepath.root = pq.index_name

----------------------------------------------------------------------------
(* Properties: invariants of the agent                                     *)

\* C35: on an initialized session every call_tool of process_query returns, the
\* loop over the catalog's tools is never entered, and a query that names a
\* repository and passes the access validation has the result of the comprehensive
\* analysis first in its tool results; the prompt has the general banner if and only if
\* the query names no repository.
C35_GeneralBannerIffNoRepository ==
    /\ (pc = "ct_done" /\ ct.caller = "pq") => ct.outcome = "returned"
    /\ pq.stage \notin {"loop1", "loop2"}
    /\ (pc = "done" /\ ret.op = "process_query" /\ initialized
          /\ ret.outcome \in {"returned", "BedrockError"})
       => /\ pq.repo_info.has_repo
             => /\ Len(pq.tool_results) >= 1
                /\ pq.tool_results[1].name = "Comprehensive Repository Analysis"
                /\ pq.prompt.results_section
          /\ GENERAL \in pq.prompt.banners <=> ~pq.repo_info.has_repo

\* C35 happens: a query naming a repository was answered on a session without live
\* server, its one tool result being fallback guidance and its banner not the general
\* one
C35_Witness ==
    /\ pc = "done" /\ ret.op = "process_query" /\ ret.outcome = "returned"
    /\ initialized /\ ~mcp_available
    /\ pq.repo_info.has_repo
    /\ Len(pq.tool_results) = 1 /\ pq.tool_results[1].fallback
    /\ GENERAL \notin pq.prompt.banners

\* C36: whenever the agent holds an integration, the integration's token is the
\* agent's token; the token_available flag of every call_tool of process_query is the
\* presence of the token the access validation looked at.
C36_AgentAndIntegrationShareToken ==
    /\ (driver = "agent" /\ mcp_integration) => mcp_token = github_token
    /\ (ct.caller = "pq")
       => /\ ct.token_available = (github_token # NoToken)
          /\ ct.token_available = (mcp_token # NoToken)
          /\ ct.token_available = can_access_repository("private")

\* C36 happens: a token was given to an initialized agent and a private repository is
\* being analysed with it
C36_Witness ==
    /\ driver = "agent" /\ mcp_integration /\ initialized
    /\ github_token = SomeToken /\ mcp_token = SomeToken
    /\ ct.caller = "pq" /\ ct.token_available
    /\ Lower(ct.repo_type) = "private"

\* C37: an initialized agent has an inference client and an integration that is
\* connected and has a catalog with tools in it; get_connection_status never reports
\* agent_initialized without bedrock_model and mcp_connected.
C37_InitializedMeansConnected ==
    /\ (driver = "agent" /\ initialized)
       => /\ bedrock_client /\ mcp_integration /\ connected
          /\ tools_cache # None /\ Len(tools_cache) > 0
    /\ (pc = "done" /\ ret.op = "get_connection_status")
       => /\ ret.value.agent_initialized
               => ret.value.bedrock_model /\ ret.value.mcp_connected
          /\ ret.value.agent_initialized = initialized

\* C37 happens: get_connection_status reports an initialized agent
C37_Witness ==
    /\ pc = "done" /\ ret.op = "get_connection_status"
    /\ ret.value.agent_initialized /\ ret.value.bedrock_model /\ ret.value.mcp_connected

----------------------------------------------------------------------------
(* Properties: the guards of the operations                                *)

\* C38: list_tools and call_tool raise RuntimeError exactly when the integration is
\* not connected (setup_client has not run, or close() has run since), and
\* process_query raises it exactly when the agent is not initialized (never
\* initialized, or cleaned up); an operation that raises it starts no process, opens
\* no session, calls no tool and no model, and changes no field of the agent or of the
\* integration.
C38_NotInitializedErrors ==
    /\ [](/\ (pc = "done" /\ ret.op = "list_tools")
             => (ret.outcome = "RuntimeError" <=> ~connected)
          /\ (pc = "ct_done" /\ ct.caller = "direct")
             => (ct.outcome = "RuntimeError" <=> ~connected)
          /\ (pc = "done" /\ ret.op = "process_query")
             => (ret.outcome = "RuntimeError" <=> ~initialized)
          /\ ct.outcome = "RuntimeError"
             => /\ ct.launches = 0 /\ ct.sessions = 0 /\ ct.result = NoText
                /\ ct.last_call = NoCall /\ ca = NoCa
          /\ (ret.op \in {"list_tools", "process_query"} /\ ret.outcome = "RuntimeError")
             => /\ probe = NoProbe /\ ct = NoCt /\ ca = NoCa
                /\ pq.tool_calls = 0 /\ pq.inference_calls = 0)
    /\ [][ (pc = "idle" /\ (ret'.outcome = "RuntimeError" \/ ct'.outcome = "RuntimeError"))
           => UNCHANGED << agentVars, mcpVars, probe >>
         ]_vars

\* C38 happens: call_tool raised on an integration that was set up with a live
\* server and closed afterwards
C38_Witness ==
    /\ pc = "ct_done" /\ ct.caller = "direct"
    /\ ct.outcome = "RuntimeError"
    /\ ~connected /\ tools_cache = None /\ mcp_available
    /\ ct.repo_url # NoUrl /\ ct.launches = 0

\* C39: on an initialized session a query that names a repository and whose type is
\* neither public nor private in any letter case is rejected with the unable-to-access
\* error, with or without a token, before any tool call and any inference call.
C39_UnknownTypeRejected ==
    (pq.active /\ initialized
       /\ pq.repo_info.has_repo
       /\ Lower(pq.repo_info.type) \notin {"public", "private"})
    => /\ pc = "done" /\ ret.op = "process_query"
       /\ ret.outcome = "ValueError: Unable to access repository"
       /\ pq.tool_calls = 0 /\ pq.inference_calls = 0
       /\ ct = NoCt /\ ca = NoCa /\ pq.prompt = NoPrompt

\* C39 happens: a session with a token rejected a query for a repository of type
\* internal
C39_Witness ==
    /\ pc = "done" /\ ret.op = "process_query"
    /\ ret.outcome = "ValueError: Unable to access repository"
    /\ initialized /\ github_token = SomeToken /\ mcp_token = SomeToken
    /\ pq.repo_info.has_repo /\ pq.repo_info.type = "internal"
    /\ pq.tool_calls = 0 /\ pq.inference_calls = 0

====
